---- MODULE Spec2Model ----
(***************************************************************************)
(* gorg: the sorted text index (db.rs), the matcher (fuzzy.rs), the prompt *)
(* session (tui.rs) and the interactive search loop (app.rs).              *)
(*                                                                         *)
(* Strings are sequences of Unicode scalar values (natural numbers).  The  *)
(* strings of the index and of the matcher are ASCII, so that byte offsets *)
(* and byte lengths coincide with character offsets and lengths, and the   *)
(* byte order of str coincides with the order of the code points.          *)
(***************************************************************************)
EXTENDS Integers, Sequences, FiniteSets, TLC

VARIABLES
    data,           \* DB.data: the buffer of the Index
    add_result,     \* result of the last DB::add: "none", "ok" or "err"
    matcher,        \* the query handed to the matcher / to the View
    target,         \* the candidate handed to Keywords::score
    score_out,      \* <<v>> once Keywords::score has returned v, <<>> before
    results,        \* the caller-owned result buffer: sequence of [item, score]
    ui,             \* the PromptUI, or NoUI while none is constructed
    event,          \* the last Event read from the terminal, or NoEvent
    ui_event,       \* what handle_event returned for it
    events_read,    \* number of events read so far
    pc,             \* where handle_find is: "find", "events", "drop", "print",
                    \* "done" (returned Ok) or "failed" (returned Err)
    raw_mode,       \* the terminal is in raw mode (a RawTerminal is alive)
    input,          \* the events that stdin delivers, in order
    selection,      \* `selection`: <<>> for None, <<index>> for Some(index)
    printed,        \* the lines written to stdout
    err,            \* the Err that handle_find is returning, "none" if none
    quit_failed,    \* PromptUI::drop reported a failure of quit()
    rendered,       \* number of frames that handle_find has rendered
    repo_url,       \* the URL handed to git_url::to_path
    project_path,   \* <<r>> once to_path has returned r, <<>> before
    frame,          \* what the last PromptUI::render wrote to the terminal
    screen,         \* the terminal: its lines from the session's first line
                    \* on, and the cursor
    tree,           \* the directory tree that GitDirIterator walks
    search_stack,   \* GitDirIterator.search_stack
    yielded,        \* the paths that next() has returned so far, in order
    exhausted       \* next() has returned None

vars == <<data, add_result, matcher, target, score_out, results,
          ui, event, ui_event, events_read,
          pc, raw_mode, input, selection, printed, err, quit_failed, rendered,
          repo_url, project_path, frame, screen,
          tree, search_stack, yielded, exhausted>>

\* the variables of the prompt session
prompt_vars == <<ui, event, ui_event, events_read>>

\* the variables of handle_find
find_vars == <<pc, raw_mode, input, selection, printed, err, quit_failed, rendered>>

\* the variables of the URL conversion
url_vars == <<repo_url, project_path>>

\* the variables of the terminal
term_vars == <<frame, screen>>

\* the variables of the directory walk
walk_vars == <<tree, search_stack, yielded, exhausted>>

NoUI == [text_input |-> <<>>, text_cursor |-> 0, selected_item |-> 0,
         max_items |-> 0, lines_printed |-> 0]

NoEvent == [key |-> "NoEvent", ch |-> 0]

NoSession ==
    /\ ui = NoUI
    /\ event = NoEvent
    /\ ui_event = "None"
    /\ events_read = 0

\* handle_find is not running
NoFind ==
    /\ pc = "idle"
    /\ raw_mode = FALSE
    /\ input = <<>>
    /\ selection = <<>>
    /\ printed = <<>>
    /\ err = "none"
    /\ quit_failed = FALSE
    /\ rendered = 0

\* no URL is being converted
NoUrl ==
    /\ repo_url = <<>>
    /\ project_path = <<>>

\* nothing has been rendered: no frame, a blank terminal
NoFrame == [width |-> 0, height |-> 0, cleared |-> {}, first_line |-> 0,
            prompt |-> <<>>, rows |-> <<>>, up |-> 0, right |-> 0,
            panicked |-> FALSE]

BlankScreen == [lines |-> <<>>, row |-> 0]

NoTerm ==
    /\ frame = NoFrame
    /\ screen = BlankScreen

\* no directory walk is running
NoWalk ==
    /\ tree = <<>>
    /\ search_stack = <<>>
    /\ yielded = <<>>
    /\ exhausted = FALSE

(***************************************************************************)
(* Bounds of the model.                                                    *)
(***************************************************************************)
MaxRecLen  == 2     \* length of the records drawn for the Index
MaxInitRec == 2     \* number of records of an initial Index
MaxLines   == 4     \* DB::add is called while the buffer has fewer lines

(***************************************************************************)
(* Characters.                                                             *)
(***************************************************************************)
NL == 10

\* char::is_whitespace (Unicode White_Space), used by str::trim and text.rs
WhiteSpace ==
    (9..13) \cup {32, 133, 160, 5760, 8232, 8233, 8239, 8287, 12288}
        \cup (8192..8202)

is_whitespace(ch) == ch \in WhiteSpace

is_punctuation(ch) ==
    \/ is_whitespace(ch)
    \/ (ch >= 33 /\ ch <= 47)
    \/ (ch >= 58 /\ ch <= 64)
    \/ (ch >= 91 /\ ch <= 96)
    \/ (ch >= 123 /\ ch <= 126)

\* the characters for which text::is_punctuation holds
Punctuation == WhiteSpace \cup {ch \in 33..126 : is_punctuation(ch)}

(***************************************************************************)
(* str helpers of the standard library, as the code uses them.             *)
(***************************************************************************)
\* Iterator::position / find: the first of the indices S, or 0 when none
First(S) == IF S = {} THEN 0 ELSE CHOOSE i \in S : \A j \in S : i <= j

\* the last of the indices S, or 0 when none
Last(S) == IF S = {} THEN 0 ELSE CHOOSE i \in S : (i + 1) \notin S /\ \A j \in S : i >= j

\* str::split(pattern): the segments between the separators, empty ones
\* kept; computed by halving at a separator near the middle, which gives the
\* segments in the same order as a scan from the left
RECURSIVE split(_, _)
split(s, seps) ==
    LET at  == {k \in 1..Len(s) : s[k] \in seps}
        mid == (Len(s) + 1) \div 2
        i   == IF \E k \in at : k >= mid
               THEN CHOOSE k \in at : k >= mid /\ \A j \in mid..(k - 1) : j \notin at
               ELSE Last(at)
    IN  IF at = {} THEN <<s>>
        ELSE split(SubSeq(s, 1, i - 1), seps) \o split(SubSeq(s, i + 1, Len(s)), seps)

\* str::trim: leading and trailing whitespace removed
trim(s) ==
    LET kept == {i \in 1..Len(s) : ~is_whitespace(s[i])}
    IN  IF kept = {} THEN <<>> ELSE SubSeq(s, First(kept), Last(kept))

\* a < b for str: lexicographic order of the bytes
RECURSIVE str_lt(_, _)
str_lt(a, b) ==
    IF Len(b) = 0 THEN FALSE
    ELSE IF Len(a) = 0 THEN TRUE
    ELSE IF a[1] # b[1] THEN a[1] < b[1]
    ELSE str_lt(Tail(a), Tail(b))

\* Vec<String>::sort (insertion into the sorted prefix; equal strings are
\* indistinguishable, so stability is not observable)
RECURSIVE sort_strings(_)
sort_strings(v) ==
    IF v = <<>> THEN <<>>
    ELSE LET rest == sort_strings(Tail(v))
             k == First({i \in 1..Len(rest) : ~str_lt(rest[i], Head(v))})
         IN  IF k = 0 THEN rest \o <<Head(v)>>
             ELSE SubSeq(rest, 1, k - 1) \o <<Head(v)>> \o SubSeq(rest, k, Len(rest))

RECURSIVE SumLen(_, _)
SumLen(lines, n) == IF n = 0 THEN 0 ELSE Len(lines[n]) + 1 + SumLen(lines, n - 1)

(***************************************************************************)
(* fuzzy.rs                                                                *)
(*                                                                         *)
(* A score is a non-negative rational number, represented exactly by the   *)
(* integer score * ScoreScale: the least common multiple of the token      *)
(* lengths clears the divisions by t.len() and the factor 10 clears the    *)
(* tenths of `distance`.  The rounding of f32 is not represented; every    *)
(* contribution is at least 2 * p.len() / t.len() > 0, so that a sum is    *)
(* zero in f32 exactly when it is zero here.                               *)
(***************************************************************************)
MaxTokenLen == 8    \* tokens of a candidate have at most this many bytes

RECURSIVE Gcd(_, _)
Gcd(a, b) == IF b = 0 THEN a ELSE Gcd(b, a % b)

RECURSIVE LcmUpTo(_)
LcmUpTo(n) ==
    IF n <= 1 THEN 1
    ELSE LET l == LcmUpTo(n - 1) IN (l * n) \div Gcd(l, n)

TokenLcm == LcmUpTo(MaxTokenLen)

ScoreScale == 10 * TokenLcm

\* ' ', '-', ',', '.', '_', '/', '\\'
WORD_SEPARATORS == {32, 45, 44, 46, 95, 47, 92}

\* split(separators).filter(|p| !p.is_empty())
tokens(s, seps) == SelectSeq(split(s, seps), LAMBDA p : p # <<>>)

Keywords_new(d) == tokens(d, WORD_SEPARATORS)

\* t.match_indices(p).next(): byte offset of the first occurrence of p in t,
\* or -1 when there is none
match_index(t, p) ==
    LET Occurs(i) == SubSeq(t, i + 1, i + Len(p)) = p
        offsets == {i \in 0..(Len(t) - Len(p)) : Occurs(i)}
    IN  IF offsets = {} THEN -1
        ELSE CHOOSE i \in offsets : \A j \in offsets : i <= j

\* ten times `distance`
distance10(ti, pi) ==
    LET d == (IF ti > pi THEN ti ELSE pi) - (IF ti < pi THEN ti ELSE pi)
    IN  CASE d = 0 -> 10
          [] d = 1 -> 9
          [] d = 2 -> 8
          [] d = 3 -> 7
          [] OTHER -> 6

\* mutation of contribution: the offset of the match is ignored (index = 1)
contribution_any_offset(p, pi, t, ti) ==
    IF match_index(t, p) < 0 THEN 0
    ELSE (20 * Len(p) + 2 * Len(t) * distance10(ti, pi)) * (TokenLcm \div Len(t))

\* what candidate token t at index ti adds to part_score for query token p at
\* index pi: (filled * 2 + index * 2 * distance) * ScoreScale, or 0
contribution(p, pi, t, ti) ==
    LET i == match_index(t, p)
    IN  IF i < 0 THEN 0
        ELSE (20 * Len(p) + 2 * (Len(t) - i) * distance10(ti, pi))
                * (TokenLcm \div Len(t))

\* mutation of part_score: only the first matching candidate token counts
part_score_first(p, pi, toks, n) ==
    LET k == First({i \in 1..n : match_index(toks[i], p) >= 0})
    IN  IF k = 0 THEN 0 ELSE contribution(p, pi, toks[k], k - 1)

\* part_score after the inner loop over the first n candidate tokens
RECURSIVE part_score(_, _, _, _)
part_score(p, pi, toks, n) ==
    IF n = 0 THEN 0
    ELSE part_score(p, pi, toks, n - 1) + contribution(p, pi, toks[n], n - 1)

\* the outer loop of Keywords::score from query token k on, `score` so far
RECURSIVE score_loop(_, _, _, _)
score_loop(parts, toks, k, score) ==
    IF k > Len(parts) THEN score
    ELSE LET ps == part_score(parts[k], k - 1, toks, Len(toks))
         IN  IF ps = 0 THEN 0
             ELSE score_loop(parts, toks, k + 1, score + ps)

\* mutation of Keywords_score: a query token without a match does not end
\* the scoring, it only adds nothing (OR semantics)
RECURSIVE score_sum(_, _, _)
score_sum(parts, toks, k) ==
    IF k > Len(parts) THEN 0
    ELSE part_score(parts[k], k - 1, toks, Len(toks)) + score_sum(parts, toks, k + 1)

Keywords_score_any(parts, t) == score_sum(parts, tokens(t, WORD_SEPARATORS), 1)

Keywords_score(parts, t) == score_loop(parts, tokens(t, WORD_SEPARATORS), 1, 0)

\* fuzzy::calc_score(matcher, candidate), the function db.rs calls: both
\* strings are tokenized by the punctuation / whitespace predicate and
\* scored as above
calc_score(m, a) == score_loop(tokens(m, Punctuation), tokens(a, Punctuation), 1, 0)

(***************************************************************************)
(* db.rs                                                                   *)
(***************************************************************************)
DB_empty == <<>>

\* mutation of str_sorted_insert: the scan does not return on an equal line
str_sorted_insert_dupe(dest, source) ==
    LET lines == split(dest, {NL})
        stop  == First({k \in 1..Len(lines) : str_lt(source, lines[k])})
        count == SumLen(lines, IF stop = 0 THEN Len(lines) ELSE stop - 1)
    IN  IF count < Len(dest)
        THEN SubSeq(dest, 1, count) \o source \o <<NL>>
               \o SubSeq(dest, count + 1, Len(dest))
        ELSE dest \o <<NL>> \o source

str_sorted_insert(dest, source) ==
    LET lines == split(dest, {NL})
        \* the line at which the scan returns or breaks, 0 when it runs out
        stop  == First({k \in 1..Len(lines) :
                         lines[k] = source \/ str_lt(source, lines[k])})
        \* `count` when the scan ends
        count == SumLen(lines, IF stop = 0 THEN Len(lines) ELSE stop - 1)
    IN  IF stop # 0 /\ lines[stop] = source THEN dest
        ELSE IF count < Len(dest)
             THEN SubSeq(dest, 1, count) \o source \o <<NL>>
                    \o SubSeq(dest, count + 1, Len(dest))
             ELSE dest \o <<NL>> \o source

\* mutation of DB::add: the entry is not trimmed
DB_add_untrimmed(d, entry) ==
    IF \E i \in 1..Len(entry) : entry[i] = NL
    THEN [data |-> d, result |-> "err"]
    ELSE [data |-> str_sorted_insert(d, entry), result |-> "ok"]

\* DB::add: the new buffer and the result
DB_add(d, entry) ==
    LET e == trim(entry)
    IN  IF \E i \in 1..Len(e) : e[i] = NL
        THEN [data |-> d, result |-> "err"]
        ELSE [data |-> str_sorted_insert(d, e), result |-> "ok"]

RECURSIVE push_lines(_)
push_lines(v) == IF v = <<>> THEN <<>> ELSE Head(v) \o <<NL>> \o push_lines(Tail(v))

DB_from_entries(entries) == push_lines(sort_strings(entries))

\* the content of an index file holding the given records, one per line and
\* without a trailing newline, as DB::load returns it
RECURSIVE join_lines(_)
join_lines(v) ==
    IF v = <<>> THEN <<>>
    ELSE IF Len(v) = 1 THEN Head(v)
    ELSE Head(v) \o <<NL>> \o join_lines(Tail(v))

\* DB::view: the buffer split on '\n', every line trimmed
DB_view(d) == LET ls == split(d, {NL}) IN [i \in 1..Len(ls) |-> trim(ls[i])]

\* the filter_map of DBView::find_matches over the first n lines
RECURSIVE scored_lines(_, _, _)
scored_lines(lines, m, n) ==
    IF n = 0 THEN <<>>
    ELSE LET score == calc_score(m, lines[n])
         IN  scored_lines(lines, m, n - 1) \o
                (IF score = 0 THEN <<>> ELSE <<[item |-> lines[n], score |-> score]>>)

\* results.sort_by(|a, b| b.score.partial_cmp(a.score)): stable, descending
RECURSIVE sort_by_score(_)
sort_by_score(v) ==
    IF v = <<>> THEN <<>>
    ELSE LET rest == sort_by_score(Tail(v))
             k == First({i \in 1..Len(rest) : rest[i].score <= Head(v).score})
         IN  IF k = 0 THEN rest \o <<Head(v)>>
             ELSE SubSeq(rest, 1, k - 1) \o <<Head(v)>> \o SubSeq(rest, k, Len(rest))

\* mutation of DBView_find_matches: the result buffer is not cleared
DBView_find_matches_keep(lines, m, res) ==
    sort_by_score(res \o scored_lines(lines, m, Len(lines)))

\* DBView::find_matches(matcher, results): the new content of `results`
DBView_find_matches(lines, m, res) ==
    LET cleared == SubSeq(res, 1, 0)
    IN  sort_by_score(cleared \o scored_lines(lines, m, Len(lines)))

(***************************************************************************)
(* tui.rs                                                                  *)
(*                                                                         *)
(* A prompt is the record of the fields of PromptUI that handle_event and  *)
(* render read and write.  An event is [key, ch]: key names the variant of *)
(* termion's Key (or "Unsupported" for any other Event) and ch is the      *)
(* character of Key::Char, Key::Ctrl and Key::Alt, 0 otherwise.            *)
(***************************************************************************)
QUERY_MAX_CHAR_LEN == 1000

\* initial_text_input.chars().take(QUERY_MAX_CHAR_LEN)
take(s, n) == IF Len(s) <= n THEN s ELSE SubSeq(s, 1, n)

\* the fields of PromptUI::new(writer, initial_text_input) once raw mode is on
PromptUI_new(initial_text_input) ==
    LET text == take(initial_text_input, QUERY_MAX_CHAR_LEN)
    IN  [text_input    |-> text,
         text_cursor   |-> Len(text),
         selected_item |-> 0,
         max_items     |-> 0,
         lines_printed |-> 0]

\* text_input.capacity(): Vec::with_capacity(QUERY_MAX_CHAR_LEN), never grown
capacity == QUERY_MAX_CHAR_LEN

\* the free function move_cursor; the cursor counts the characters before it,
\* so that text[q] (1-based) is the character before cursor q
move_cursor(text, cursor, direction, amount) ==
    LET len == Len(text)
        IsP(q) == is_punctuation(text[q])
        \* iter.find(is_punctuation) over the positions from..1, leftwards
        FindLeft(from) ==
            IF \E q \in 1..from : IsP(q)
            THEN CHOOSE q \in 1..from : IsP(q) /\ \A j \in (q + 1)..from : ~IsP(j)
            ELSE 0
        \* iter.skip_while(is_punctuation) from `from` leftwards: the position
        \* of the first character that is kept, 0 when the iterator runs out
        SkipLeft(from) ==
            IF \E q \in 1..from : ~IsP(q)
            THEN CHOOSE q \in 1..from : ~IsP(q) /\ \A j \in (q + 1)..from : IsP(j)
            ELSE 0
        \* the same two scans rightwards over the positions from..len
        FindRight(from) ==
            IF \E q \in from..len : IsP(q)
            THEN CHOOSE q \in from..len : IsP(q) /\ \A j \in from..(q - 1) : ~IsP(j)
            ELSE 0
        SkipRight(from) ==
            IF \E q \in from..len : ~IsP(q)
            THEN CHOOSE q \in from..len : ~IsP(q) /\ \A j \in from..(q - 1) : IsP(j)
            ELSE 0
    IN  IF len = 0 THEN 0
        ELSE CASE direction = "Left" /\ amount = "End" -> 0
               [] direction = "Right" /\ amount = "End" -> len
               [] direction = "Left" /\ amount = "Char" ->
                    IF cursor > 0 THEN cursor - 1 ELSE 0
               [] direction = "Right" /\ amount = "Char" ->
                    IF cursor < len THEN cursor + 1 ELSE cursor
               [] direction = "Left" /\ amount = "Word" ->
                    IF cursor > 0
                    THEN LET res == IF IsP(cursor)
                                    THEN LET kept == SkipLeft(cursor - 1)
                                         IN  IF kept = 0 THEN 0 ELSE FindLeft(kept - 1)
                                    ELSE FindLeft(cursor - 1)
                         \* Some((offset, _)) => cursor - offset, None => 0
                         IN  IF res # 0 THEN cursor - (cursor - res) ELSE 0
                    ELSE cursor
               [] direction = "Right" /\ amount = "Word" ->
                    IF cursor < len
                    THEN LET res == IF IsP(cursor + 1)
                                    THEN LET kept == SkipRight(cursor + 2)
                                         IN  IF kept = 0 THEN 0 ELSE FindRight(kept + 1)
                                    ELSE FindRight(cursor + 2)
                         \* Some((offset, _)) => cursor + offset, None => len
                         IN  IF res # 0 THEN cursor + (res - (cursor + 1)) ELSE len
                    ELSE cursor

\* mutation of PromptUI::move_cursor: a word movement to the right lands
\* behind the boundary character instead of on it
PromptUI_move_cursor_past(self, direction, amount) ==
    LET to == move_cursor(self.text_input, self.text_cursor, direction, amount)
    IN  [self EXCEPT !.text_cursor =
            IF direction = "Right" /\ amount = "Word" /\ to < Len(self.text_input)
            THEN to + 1 ELSE to]

\* mutation of PromptUI::move_cursor: a word movement to the left lands on
\* the boundary character instead of behind it
PromptUI_move_cursor_onto(self, direction, amount) ==
    LET to == move_cursor(self.text_input, self.text_cursor, direction, amount)
    IN  [self EXCEPT !.text_cursor =
            IF direction = "Left" /\ amount = "Word" /\ to > 0
            THEN to - 1 ELSE to]

\* mutation of PromptUI::move_cursor: a character movement wraps around at
\* the ends of the text instead of stopping
PromptUI_move_cursor_wrap(self, direction, amount) ==
    LET len == Len(self.text_input)
        to  == move_cursor(self.text_input, self.text_cursor, direction, amount)
    IN  [self EXCEPT !.text_cursor =
            IF amount = "Char" /\ to = self.text_cursor
            THEN (IF direction = "Left" THEN len ELSE 0)
            ELSE to]

\* PromptUI::move_cursor
PromptUI_move_cursor(self, direction, amount) ==
    [self EXCEPT !.text_cursor = move_cursor(self.text_input, self.text_cursor, direction, amount)]

\* Vec::remove(i) for the 0-based index i
remove(v, i) == SubSeq(v, 1, i) \o SubSeq(v, i + 2, Len(v))

\* mutation of delete_char: the cursor is not tested against the text start
delete_char_unchecked(self) ==
    IF self.text_input = <<>>
    THEN [ui |-> self, ret |-> FALSE]
    ELSE [ui |-> [self EXCEPT !.text_cursor = self.text_cursor - 1,
                              !.text_input = remove(self.text_input, self.text_cursor - 1)],
          ret |-> TRUE]

\* PromptUI::delete_char: the prompt afterwards and the returned bool
delete_char(self) ==
    IF self.text_input = <<>> \/ self.text_cursor = 0
    THEN [ui |-> self, ret |-> FALSE]
    ELSE [ui |-> [self EXCEPT !.text_cursor = self.text_cursor - 1,
                            !.text_input = remove(self.text_input, self.text_cursor - 1)],
          ret |-> TRUE]

\* PromptUI::delete_word
\* mutation of delete_word: the word is removed but the cursor stays
delete_word_keep_cursor(self) ==
    IF self.text_input = <<>>
    THEN [ui |-> self, ret |-> FALSE]
    ELSE LET next_cursor_pos == move_cursor(self.text_input, self.text_cursor, "Left", "Word")
         IN  IF self.text_cursor = next_cursor_pos
             THEN [ui |-> self, ret |-> FALSE]
             ELSE [ui |-> [self EXCEPT
                             !.text_input =
                                 SubSeq(self.text_input, 1, next_cursor_pos) \o
                                 SubSeq(self.text_input, self.text_cursor + 1, Len(self.text_input))],
                   ret |-> TRUE]

\* mutation of delete_word: the word is removed but false is returned
delete_word_silent(self) ==
    IF self.text_input = <<>>
    THEN [ui |-> self, ret |-> FALSE]
    ELSE LET next_cursor_pos == move_cursor(self.text_input, self.text_cursor, "Left", "Word")
         IN  [ui |-> [self EXCEPT
                         !.text_input =
                             SubSeq(self.text_input, 1, next_cursor_pos) \o
                             SubSeq(self.text_input, self.text_cursor + 1, Len(self.text_input)),
                         !.text_cursor = next_cursor_pos],
              ret |-> FALSE]

delete_word(self) ==
    IF self.text_input = <<>>
    THEN [ui |-> self, ret |-> FALSE]
    ELSE LET next_cursor_pos == move_cursor(self.text_input, self.text_cursor, "Left", "Word")
         IN  IF self.text_cursor = next_cursor_pos
             THEN [ui |-> self, ret |-> FALSE]
             ELSE [ui |-> [self EXCEPT
                             \* drain(next_cursor_pos..text_cursor)
                             !.text_input =
                                 SubSeq(self.text_input, 1, next_cursor_pos) \o
                                 SubSeq(self.text_input, self.text_cursor + 1, Len(self.text_input)),
                             !.text_cursor = next_cursor_pos],
                   ret |-> TRUE]

\* mutation of insert_char: the character is always pushed at the end
insert_char_push(self, ch) ==
    IF Len(self.text_input) + 1 > capacity
    THEN self
    ELSE [self EXCEPT !.text_input = Append(self.text_input, ch),
                      !.text_cursor = self.text_cursor + 1]

\* mutation of insert_char: the capacity test is off by one
insert_char_over(self, ch) ==
    IF Len(self.text_input) > capacity
    THEN self
    ELSE [self EXCEPT
            !.text_input = SubSeq(self.text_input, 1, self.text_cursor) \o <<ch>> \o
                           SubSeq(self.text_input, self.text_cursor + 1, Len(self.text_input)),
            !.text_cursor = self.text_cursor + 1]

\* PromptUI::insert_char
insert_char(self, ch) ==
    IF Len(self.text_input) + 1 > capacity
    THEN self
    ELSE [self EXCEPT
            !.text_input =
                IF self.text_cursor = Len(self.text_input)
                THEN Append(self.text_input, ch)
                ELSE SubSeq(self.text_input, 1, self.text_cursor) \o <<ch>> \o
                     SubSeq(self.text_input, self.text_cursor + 1, Len(self.text_input)),
            !.text_cursor = self.text_cursor + 1]

Key(k) == [key |-> k, ch |-> 0]
Char(c) == [key |-> "Char", ch |-> c]
Ctrl(c) == [key |-> "Ctrl", ch |-> c]
Alt(c)  == [key |-> "Alt", ch |-> c]

None == "None"

\* PromptUI::handle_event: the prompt afterwards and the emitted event
handle_event(self, ev) ==
    CASE ev = Char(10) -> [ui |-> self, ret |-> "SelectionDone"]
      [] ev = Key("Backspace") ->
            LET r == delete_char(self)
            IN  IF r.ret
                THEN [ui |-> [r.ui EXCEPT !.selected_item = 0], ret |-> "PromptUpdated"]
                ELSE [ui |-> r.ui, ret |-> None]
      [] ev \in {Ctrl(104), Alt(127), Ctrl(119)} ->
            LET r == delete_word(self)
            IN  IF r.ret
                THEN [ui |-> [r.ui EXCEPT !.selected_item = 0], ret |-> "PromptUpdated"]
                ELSE [ui |-> r.ui, ret |-> None]
      [] ev \in {Key("Up"), Ctrl(112)} ->
            IF self.selected_item > 0
            THEN [ui |-> [self EXCEPT !.selected_item = self.selected_item - 1],
                  ret |-> "SelectionUpdated"]
            ELSE [ui |-> self, ret |-> None]
      [] ev \in {Key("Down"), Ctrl(110)} ->
            IF self.selected_item + 1 < self.max_items
            THEN [ui |-> [self EXCEPT !.selected_item = self.selected_item + 1],
                  ret |-> "SelectionUpdated"]
            ELSE [ui |-> self, ret |-> None]
      [] ev \in {Key("Left"), Ctrl(98)} ->
            [ui |-> PromptUI_move_cursor(self, "Left", "Char"), ret |-> "CursorUpdated"]
      [] ev \in {Key("Right"), Ctrl(102)} ->
            [ui |-> PromptUI_move_cursor(self, "Right", "Char"), ret |-> "CursorUpdated"]
      [] ev \in {Key("CtrlLeft"), Key("AltLeft"), Alt(98)} ->
            [ui |-> PromptUI_move_cursor(self, "Left", "Word"), ret |-> "CursorUpdated"]
      [] ev \in {Key("CtrlRight"), Key("AltRight"), Alt(102)} ->
            [ui |-> PromptUI_move_cursor(self, "Right", "Word"), ret |-> "CursorUpdated"]
      [] ev \in {Key("Home"), Ctrl(97)} ->
            [ui |-> PromptUI_move_cursor(self, "Left", "End"), ret |-> "CursorUpdated"]
      [] ev \in {Key("End"), Ctrl(101)} ->
            [ui |-> PromptUI_move_cursor(self, "Right", "End"), ret |-> "CursorUpdated"]
      [] ev \in {Ctrl(99), Ctrl(100)} -> [ui |-> self, ret |-> "Exit"]
      [] ev.key = "Char" /\ ev # Char(10) ->
            [ui |-> [insert_char(self, ev.ch) EXCEPT !.selected_item = 0],
             ret |-> "PromptUpdated"]
      [] OTHER -> [ui |-> self, ret |-> None]

\* termion::terminal_size().unwrap_or((80, 80)).1 when the size is unavailable
DEFAULT_HEIGHT == 80

\* PromptUI::render(items) when every write succeeds, on a terminal of the
\* given height: one line for the prompt and one per rendered row
render(self, items, height) ==
    LET rows == IF Len(items) <= height - 2 THEN Len(items) ELSE height - 2
    IN  [self EXCEPT !.max_items = rows, !.lines_printed = 1 + rows]

(***************************************************************************)
(* The Index under a sequence of DB::add calls.                            *)
(***************************************************************************)
Alphabet == {97, 98}                          \* 'a', 'b'

StringsUpTo(S, n) == UNION {[1..k -> S] : k \in 0..n}

Records == StringsUpTo(Alphabet, MaxRecLen) \ {<<>>}

\* enumerations without repetition of at most MaxInitRec records
InitEntries ==
    {v \in StringsUpTo(Records, MaxInitRec) :
        \A i, j \in 1..Len(v) : i # j => v[i] # v[j]}

\* what the callers hand to DB::add: records, padded records, and text with
\* an embedded newline
AddEntries ==
    Records \cup {<<32, 97>>, <<98, 10>>, <<97, 10, 98>>}

NumLines(d) == Len(split(d, {NL}))

IndexInit ==
    /\ \E v \in InitEntries :
          \/ data = DB_empty /\ v = <<>>
          \/ data = DB_from_entries(v)
          \/ data = join_lines(sort_strings(v))
    /\ add_result = "none"
    /\ matcher = <<>>
    /\ target = <<>>
    /\ score_out = <<>>
    /\ results = <<>>
    /\ NoSession
    /\ NoFind
    /\ NoUrl
    /\ NoTerm
    /\ NoWalk

Add(entry) ==
    /\ NumLines(data) < MaxLines
    /\ LET r == DB_add(data, entry)
       IN  /\ data' = r.data
           /\ add_result' = r.result
    /\ UNCHANGED <<matcher, target, score_out, results, prompt_vars, find_vars, url_vars, term_vars, walk_vars>>

IndexNext == \E entry \in AddEntries : Add(entry)

SpecIndex == IndexInit /\ [][IndexNext]_vars

\* the segments of the buffer, empty trailing segments discarded
RECURSIVE DropTrailingEmpty(_)
DropTrailingEmpty(lines) ==
    IF lines # <<>> /\ lines[Len(lines)] = <<>>
    THEN DropTrailingEmpty(SubSeq(lines, 1, Len(lines) - 1))
    ELSE lines

BufferRecords(d) == DropTrailingEmpty(split(d, {NL}))

\* C1: after any sequence of DB::add calls on an Index that started empty,
\* from from_entries or from a loaded sorted file, the segments of the buffer
\* (empty trailing ones discarded) are non-empty and strictly ascending, so
\* they are the sorted unique record set.
C1_SortedUniqueRecords ==
    LET segs == BufferRecords(data)
    IN  /\ \A i \in 1..Len(segs) : segs[i] # <<>>
        /\ \A i, j \in 1..Len(segs) : i < j => str_lt(segs[i], segs[j])

(***************************************************************************)
(* The matcher as a pure function: Keywords::new(matcher).score(target).   *)
(***************************************************************************)
MaxQueryLen == 3    \* length of the queries and candidates that are scored

ScoreAlphabet == {97, 98, 47, 32}             \* 'a', 'b', '/', ' '

\* "a/a/a/a/a", "ab/ba/a/b/aab": five tokens, every distance class;
\* "a:b", "a\tb": punctuation and whitespace other than the word separators
ScoreSamples ==
    {<<97, 47, 97, 47, 97, 47, 97, 47, 97>>,
     <<97, 98, 47, 98, 97, 47, 97, 47, 98, 47, 97, 97, 98>>,
     <<97, 58, 98>>, <<97, 9, 98>>}

ScoreStrings == StringsUpTo(ScoreAlphabet, MaxQueryLen) \cup ScoreSamples

ScoreInit ==
    /\ matcher \in ScoreStrings
    /\ target \in ScoreStrings
    /\ score_out = <<>>
    /\ data = DB_empty
    /\ add_result = "none"
    /\ results = <<>>
    /\ NoSession
    /\ NoFind
    /\ NoUrl
    /\ NoTerm
    /\ NoWalk

Score ==
    /\ score_out = <<>>
    /\ score_out' = <<Keywords_score(Keywords_new(matcher), target)>>
    /\ UNCHANGED <<data, add_result, matcher, target, results, prompt_vars, find_vars, url_vars, term_vars, walk_vars>>

ScoreNext == Score

SpecScore == ScoreInit /\ [][ScoreNext]_vars

\* p occurs as a substring of t
IsSubstring(p, t) ==
    \E i \in 1..(Len(t) - Len(p) + 1) : \A k \in 1..Len(p) : t[i + k - 1] = p[k]

\* the tokens of a string as a set: the maximal runs without a separator
MaximalTokens(s) ==
    {SubSeq(s, i, j) : <<i, j>> \in
        {x \in (1..Len(s)) \X (1..Len(s)) :
            /\ x[1] <= x[2]
            /\ \A k \in x[1]..x[2] : s[k] \notin WORD_SEPARATORS
            /\ (x[1] = 1 \/ s[x[1] - 1] \in WORD_SEPARATORS)
            /\ (x[2] = Len(s) \/ s[x[2] + 1] \in WORD_SEPARATORS)}}

\* some token of q occurs in no token of c
SomeTokenMissing(q, c) ==
    \E p \in MaximalTokens(q) : \A t \in MaximalTokens(c) : ~IsSubstring(p, t)

\* C2 as stated: for every query and candidate, empty and separator-only ones
\* included, the score is 0 iff some query token occurs in no candidate token,
\* and it is strictly positive otherwise.
C2_ZeroIffTokenMissing ==
    score_out # <<>> =>
        /\ (score_out[1] = 0) <=> SomeTokenMissing(matcher, target)
        /\ ~SomeTokenMissing(matcher, target) => score_out[1] > 0

\* C2 (amended): when the query has at least one token the score is 0 iff some
\* query token occurs in no candidate token and strictly positive otherwise;
\* a query without tokens scores 0 against every candidate.
C2_ZeroIffTokenMissingOrNoToken ==
    score_out # <<>> =>
        IF MaximalTokens(matcher) = {}
        THEN score_out[1] = 0
        ELSE /\ (score_out[1] = 0) <=> SomeTokenMissing(matcher, target)
             /\ ~SomeTokenMissing(matcher, target) => score_out[1] > 0

\* a two-token query was scored against a candidate that holds both tokens,
\* and one against a candidate that lacks one of them
C2_Witness ==
    /\ score_out # <<>>
    /\ Cardinality(MaximalTokens(matcher)) = 2
    /\ Cardinality(MaximalTokens(target)) = 2
    /\ ~SomeTokenMissing(matcher, target)
    /\ score_out[1] > 0

(***************************************************************************)
(* The View under repeated ranked queries into one result buffer.          *)
(***************************************************************************)
\* records with one and with two tokens
ViewRecords == Records \cup {<<97, 47, 98>>, <<98, 47, 97>>}

ViewEntries ==
    {v \in StringsUpTo(ViewRecords, MaxInitRec + 1) :
        \A i, j \in 1..Len(v) : i < j => str_lt(v[i], v[j])}

\* "", "a", "b", "ab", "a b", "b a", "/", "aa"
ViewQueries ==
    {<<>>, <<97>>, <<98>>, <<97, 98>>, <<97, 32, 98>>, <<98, 32, 97>>, <<47>>,
     <<97, 97>>}

ViewInit ==
    /\ \E v \in ViewEntries :
          \/ data = DB_from_entries(v)
          \/ data = join_lines(v)
    /\ results = <<>>
    /\ matcher = <<>>
    /\ target = <<>>
    /\ score_out = <<>>
    /\ add_result = "none"
    /\ NoSession
    /\ NoFind
    /\ NoUrl
    /\ NoTerm
    /\ NoWalk

ViewFindMatches(q) ==
    /\ matcher' = q
    /\ results' = DBView_find_matches(DB_view(data), q, results)
    /\ UNCHANGED <<data, add_result, target, score_out, prompt_vars, find_vars, url_vars, term_vars, walk_vars>>

ViewNext == \E q \in ViewQueries : ViewFindMatches(q)

SpecView == ViewInit /\ [][ViewNext]_vars

\* the indices of the View lines that score nonzero against the query
MatchingLines(d, q) ==
    {i \in 1..Len(DB_view(d)) : calc_score(q, DB_view(d)[i]) # 0}

\* C3: after View.find_matches(q, out), whatever out held before, out holds
\* exactly one entry per View line whose score against q is nonzero, each
\* tagged with that score, in order of non-increasing score.
C3_ExactRankedMatches ==
    LET lines == DB_view(data)
    IN  /\ Len(results) = Cardinality(MatchingLines(data, matcher))
        /\ \A i \in MatchingLines(data, matcher) :
              Cardinality({k \in 1..Len(results) : results[k].item = lines[i]})
                = Cardinality({j \in MatchingLines(data, matcher) : lines[j] = lines[i]})
        /\ \A k \in 1..Len(results) :
              /\ results[k].score # 0
              /\ results[k].score = calc_score(matcher, results[k].item)
        /\ \A j, k \in 1..Len(results) :
              j < k => results[j].score >= results[k].score

\* a query left two entries with different scores in the buffer and filtered
\* a line out
C3_Witness ==
    /\ Len(results) = 2
    /\ results[1].score > results[2].score
    /\ Cardinality(MatchingLines(data, matcher)) < Len(BufferRecords(data))

(***************************************************************************)
(* The prompt session under any caller: PromptUI::new, then handle_event   *)
(* and render in any order.                                                *)
(***************************************************************************)
MaxKeys == 3        \* number of events handled in one behaviour
MaxRows == 2        \* number of items the caller hands to render

Repeat(ch, n) == [i \in 1..n |-> ch]

\* "", "a b", "ab/ a", and 'a' repeated up to, at and beyond the capacity
PromptSeeds ==
    {<<>>, <<97, 32, 98>>, <<97, 98, 47, 32, 97>>}
        \cup {Repeat(97, n) : n \in (QUERY_MAX_CHAR_LEN - 1)..(QUERY_MAX_CHAR_LEN + 1)}

\* one event per arm of handle_event; 'b' and ' ' are typed
PromptEvents ==
    {Char(10), Key("Backspace"), Ctrl(119), Key("Up"), Key("Down"),
     Key("Left"), Key("Right"), Key("CtrlLeft"), Key("CtrlRight"),
     Key("Home"), Key("End"), Ctrl(99), Char(98), Char(32), Key("Esc")}

PromptInit ==
    /\ \E seed \in PromptSeeds : ui = PromptUI_new(seed)
    /\ event = NoEvent
    /\ ui_event = None
    /\ events_read = 0
    /\ data = DB_empty
    /\ add_result = "none"
    /\ matcher = <<>>
    /\ target = <<>>
    /\ score_out = <<>>
    /\ results = <<>>
    /\ NoFind
    /\ NoUrl
    /\ NoTerm
    /\ NoWalk

HandleEvent(ev) ==
    /\ events_read < MaxKeys
    /\ LET r == handle_event(ui, ev)
       IN  /\ ui' = r.ui
           /\ ui_event' = r.ret
    /\ event' = ev
    /\ events_read' = events_read + 1
    /\ UNCHANGED <<data, add_result, matcher, target, score_out, results, find_vars, url_vars, term_vars, walk_vars>>

Render(n) ==
    /\ ui' = render(ui, Repeat(<<97>>, n), DEFAULT_HEIGHT)
    /\ UNCHANGED <<data, add_result, matcher, target, score_out, results,
                   event, ui_event, events_read, find_vars, url_vars, term_vars, walk_vars>>

PromptNext ==
    \/ \E ev \in PromptEvents : HandleEvent(ev)
    \/ \E n \in 0..MaxRows : Render(n)

SpecPrompt == PromptInit /\ [][PromptNext]_vars

\* C8: in every prompt state the query has at most QUERY_MAX_CHAR_LEN
\* characters, whatever the seed and the key events, and a character typed
\* at that length leaves the length there.
C8_LengthWithinCap ==
    /\ [](Len(ui.text_input) <= QUERY_MAX_CHAR_LEN)
    /\ [][(events_read' = events_read + 1 /\ event'.key = "Char"
                /\ Len(ui.text_input) = QUERY_MAX_CHAR_LEN)
            => Len(ui'.text_input) = QUERY_MAX_CHAR_LEN]_vars

\* 'b' was typed into a full query most of which is still the seed: the
\* query is at the cap and holds no 'b'
C8_Witness ==
    /\ event = Char(98)
    /\ Len(ui.text_input) = QUERY_MAX_CHAR_LEN
    /\ \A i \in 1..Len(ui.text_input) : ui.text_input[i] # 98

\* C9: a printable character received while the query is at capacity is
\* dropped silently: text, cursor and selected row are unchanged and
\* handle_event emits no event.
C9_DroppedSilently ==
    [][(events_read' = events_read + 1 /\ event'.key = "Char" /\ event' # Char(10)
            /\ Len(ui.text_input) = QUERY_MAX_CHAR_LEN)
        => (ui' = ui /\ ui_event' = None)]_vars

\* C10: in every prompt state 0 <= cursor <= length of the query text.
C10_CursorWithinText ==
    ui.text_cursor >= 0 /\ ui.text_cursor <= Len(ui.text_input)

\* the cursor is strictly inside a text that key events have edited
C10_Witness ==
    /\ events_read = MaxKeys
    /\ ui_event = "PromptUpdated"
    /\ ui.text_cursor > 0
    /\ ui.text_cursor < Len(ui.text_input)

(***************************************************************************)
(* app.rs: App::handle_find, the interactive search loop.                  *)
(*                                                                         *)
(* Every write to the terminal and every read from it can fail; a failing  *)
(* call makes handle_find return its Err through `?`, which drops the      *)
(* PromptUI on the way out.                                                *)
(***************************************************************************)
MaxScript == 2      \* length of the arbitrary inputs that stdin delivers

max_find_items == 10

\* results.iter().take(max_find_items).map(|(item, _)| *item)
top_items(res) ==
    [i \in 1..(IF Len(res) <= max_find_items THEN Len(res) ELSE max_find_items)
        |-> res[i].item]

\* the arm of SelectionDone without its comparison with results.len()
select_unchecked(self, res) ==
    <<self.selected_item>>

\* the arm of SelectionDone: Some(selected_item) if it is below results.len()
select(self, res) ==
    IF self.selected_item < Len(res) THEN <<self.selected_item>> ELSE <<>>

\* an index file without records, with the one record "a", and with the five
\* records "a", "aa", "ab", "ba", "bab", as update-index writes them
FiveRecordIndex ==
    DB_from_entries(<<(<<97>>), <<97, 97>>, <<97, 98>>, <<98, 97>>, <<98, 97, 98>>>>)

\* eleven records that contain 'a': one more than max_find_items
ElevenRecordIndex ==
    DB_from_entries(<<(<<97>>), <<97, 97>>, <<97, 98>>, <<98, 97>>,
                      <<97, 97, 97>>, <<97, 97, 98>>, <<97, 98, 97>>, <<97, 98, 98>>,
                      <<98, 97, 97>>, <<98, 97, 98>>, <<98, 98, 97>>>>)

LoopBuffers ==
    {DB_from_entries(<<>>), DB_from_entries(<<(<<97>>)>>), FiveRecordIndex,
     ElevenRecordIndex}

\* args.query.join(" "): "", "a", "aa", "ab", "b a"
LoopSeeds == {<<>>, <<97>>, <<97, 97>>, <<97, 98>>, <<98, 32, 97>>}

\* Enter, Ctrl-C, Ctrl-D, Down, Up, 'b', Backspace, Left, Esc
LoopEvents ==
    {Char(10), Ctrl(99), Ctrl(100), Key("Down"), Key("Up"), Char(98),
     Key("Backspace"), Key("Left"), Key("Esc")}

\* the scenario "selection staleness": three times Down, 'b', Enter
StalenessScript == <<Key("Down"), Key("Down"), Key("Down"), Char(98), Char(10)>>

\* an input without event, a move of the selection, a change of the text
RequeryScript == <<Key("Esc"), Key("Down"), Char(98)>>

Scripts == StringsUpTo(LoopEvents, MaxScript) \cup {StalenessScript, RequeryScript}

Init ==
    /\ pc = "find"
    /\ data \in LoopBuffers
    /\ input \in Scripts
    /\ matcher = <<>>
    /\ results = <<>>
    /\ raw_mode = FALSE
    /\ selection = <<>>
    /\ printed = <<>>
    /\ err = "none"
    /\ quit_failed = FALSE
    /\ rendered = 0
    /\ add_result = "none"
    /\ target = <<>>
    /\ score_out = <<>>
    /\ NoSession
    /\ NoUrl
    /\ NoTerm
    /\ NoWalk

\* handle_find without the fast path: the session is built for any result count
Find_always_prompt(seed) ==
    /\ pc = "find"
    /\ LET res == DBView_find_matches(DB_view(data), seed, results)
       IN  /\ matcher' = seed
           /\ results' = res
           /\ ui' = render(PromptUI_new(seed), top_items(res), DEFAULT_HEIGHT)
           /\ raw_mode' = TRUE
           /\ pc' = "events"
           /\ rendered' = rendered + 1
    /\ UNCHANGED <<data, add_result, target, score_out, url_vars, term_vars, walk_vars, event, ui_event,
                   events_read, input, selection, printed, err, quit_failed>>

\* handle_find up to the loop: the first query, the fast path, the session
Find(seed) ==
    /\ pc = "find"
    /\ LET res == DBView_find_matches(DB_view(data), seed, results)
       IN  /\ matcher' = seed
           /\ results' = res
           /\ IF Len(res) = 1
              THEN /\ printed' = Append(printed, res[1].item)
                   /\ pc' = "done"
                   /\ UNCHANGED <<ui, raw_mode, err, rendered>>
              ELSE \/ \* PromptUI::new fails to enter raw mode
                      /\ pc' = "failed"
                      /\ err' = "new"
                      /\ UNCHANGED <<ui, raw_mode, printed, rendered>>
                   \/ \* the first render fails
                      /\ ui' = PromptUI_new(seed)
                      /\ raw_mode' = TRUE
                      /\ pc' = "drop"
                      /\ err' = "render"
                      /\ UNCHANGED <<printed, rendered>>
                   \/ /\ ui' = render(PromptUI_new(seed), top_items(res), DEFAULT_HEIGHT)
                      /\ raw_mode' = TRUE
                      /\ pc' = "events"
                      /\ rendered' = rendered + 1
                      /\ UNCHANGED <<err, printed>>
    /\ UNCHANGED <<data, add_result, target, score_out, url_vars, term_vars, walk_vars, event, ui_event,
                   events_read, input, selection, quit_failed>>

\* an iteration that renders without recomputing the results
ReadEvent_stale ==
    /\ pc = "events"
    /\ events_read < Len(input)
    /\ LET ev   == input[events_read + 1]
           r    == handle_event(ui, ev)
           sel  == IF r.ret = "SelectionDone" THEN select(r.ui, results) ELSE <<>>
           stop == r.ret = "Exit" \/ sel # <<>>
           res  == results
       IN  /\ event' = ev
           /\ ui_event' = r.ret
           /\ events_read' = events_read + 1
           /\ matcher' = IF r.ret = "PromptUpdated" THEN r.ui.text_input ELSE matcher
           /\ results' = res
           /\ selection' = IF sel # <<>> THEN sel ELSE selection
           /\ IF stop
              THEN /\ ui' = r.ui
                   /\ pc' = "drop"
                   /\ UNCHANGED <<err, rendered>>
              ELSE IF r.ret = None
              THEN /\ ui' = r.ui
                   /\ UNCHANGED <<pc, err, rendered>>
              ELSE \/ /\ ui' = render(r.ui, top_items(res), DEFAULT_HEIGHT)
                      /\ rendered' = rendered + 1
                      /\ UNCHANGED <<pc, err>>
                   \/ \* render fails
                      /\ ui' = r.ui
                      /\ pc' = "drop"
                      /\ err' = "render"
                      /\ UNCHANGED rendered
    /\ UNCHANGED <<data, add_result, target, score_out, url_vars, term_vars, walk_vars, raw_mode, input,
                   printed, quit_failed>>

\* one iteration of `for event in stdin.events()`
ReadEvent ==
    /\ pc = "events"
    /\ events_read < Len(input)
    /\ LET ev   == input[events_read + 1]
           r    == handle_event(ui, ev)
           sel  == IF r.ret = "SelectionDone" THEN select(r.ui, results) ELSE <<>>
           stop == r.ret = "Exit" \/ sel # <<>>
           res  == IF r.ret = "PromptUpdated"
                   THEN DBView_find_matches(DB_view(data), r.ui.text_input, results)
                   ELSE results
       IN  /\ event' = ev
           /\ ui_event' = r.ret
           /\ events_read' = events_read + 1
           /\ matcher' = IF r.ret = "PromptUpdated" THEN r.ui.text_input ELSE matcher
           /\ results' = res
           /\ selection' = IF sel # <<>> THEN sel ELSE selection
           /\ IF stop
              THEN /\ ui' = r.ui
                   /\ pc' = "drop"
                   /\ UNCHANGED <<err, rendered>>
              ELSE IF r.ret = None
              THEN /\ ui' = r.ui
                   /\ UNCHANGED <<pc, err, rendered>>
              ELSE \/ /\ ui' = render(r.ui, top_items(res), DEFAULT_HEIGHT)
                      /\ rendered' = rendered + 1
                      /\ UNCHANGED <<pc, err>>
                   \/ \* render fails
                      /\ ui' = r.ui
                      /\ pc' = "drop"
                      /\ err' = "render"
                      /\ UNCHANGED rendered
    /\ UNCHANGED <<data, add_result, target, score_out, url_vars, term_vars, walk_vars, raw_mode, input,
                   printed, quit_failed>>

\* stdin.events() yields an Err: `event?` returns it
ReadError ==
    /\ pc = "events"
    /\ pc' = "drop"
    /\ err' = "event"
    /\ UNCHANGED <<data, add_result, matcher, target, score_out, url_vars, term_vars, walk_vars, results,
                   prompt_vars, raw_mode, input, selection, printed, quit_failed, rendered>>

\* stdin.events() ends: the loop is left without a selection
EndOfInput ==
    /\ pc = "events"
    /\ events_read = Len(input)
    /\ pc' = "drop"
    /\ UNCHANGED <<data, add_result, matcher, target, score_out, url_vars, term_vars, walk_vars, results,
                   prompt_vars, raw_mode, input, selection, printed, err, quit_failed, rendered>>

\* a Drop whose failing quit() becomes the result of handle_find
Drop_propagate ==
    /\ pc = "drop"
    /\ raw_mode' = FALSE
    /\ quit_failed' \in BOOLEAN
    /\ err' = IF quit_failed' THEN "quit" ELSE err
    /\ pc' = IF err' = "none" THEN "print" ELSE "failed"
    /\ UNCHANGED <<data, add_result, matcher, target, score_out, url_vars, term_vars, walk_vars, results,
                   prompt_vars, input, selection, printed, rendered>>

\* the PromptUI goes out of scope: Drop calls quit(), reports its failure,
\* and the RawTerminal it owns restores the terminal
Drop ==
    /\ pc = "drop"
    /\ raw_mode' = FALSE
    /\ quit_failed' \in BOOLEAN
    /\ pc' = IF err = "none" THEN "print" ELSE "failed"
    /\ UNCHANGED <<data, add_result, matcher, target, score_out, url_vars, term_vars, walk_vars, results,
                   prompt_vars, input, selection, printed, err, rendered>>

\* a print that takes the selected row of the prompt, selection or not
PrintSelection_any ==
    /\ pc = "print"
    /\ printed' = IF ui.selected_item < Len(results)
                  THEN Append(printed, results[ui.selected_item + 1].item)
                  ELSE printed
    /\ pc' = "done"
    /\ UNCHANGED <<data, add_result, matcher, target, score_out, url_vars, term_vars, walk_vars, results,
                   prompt_vars, raw_mode, input, selection, err, quit_failed, rendered>>

\* after the block: print_project(results[index].0) if a row was selected
PrintSelection ==
    /\ pc = "print"
    /\ printed' = IF selection # <<>>
                  THEN Append(printed, results[selection[1] + 1].item)
                  ELSE printed
    /\ pc' = "done"
    /\ UNCHANGED <<data, add_result, matcher, target, score_out, url_vars, term_vars, walk_vars, results,
                   prompt_vars, raw_mode, input, selection, err, quit_failed, rendered>>

Next ==
    \/ \E seed \in LoopSeeds : Find(seed)
    \/ ReadEvent
    \/ ReadError
    \/ EndOfInput
    \/ Drop
    \/ PrintSelection

Spec == Init /\ [][Next]_vars

\* an iteration of the loop has just handled an event
Handled == pc = "events" /\ events_read' = events_read + 1

\* C4: a SelectionDone event always stops the loop, reporting the record of
\* the selected row if that row is below the result count and no selection
\* otherwise.
C4_SelectionDoneStops ==
    [][(Handled /\ ui_event' = "SelectionDone")
        => (pc' = "drop" /\ selection' = select(ui', results))]_vars

\* the run of the staleness scenario: five records, seed "a", the script
FiveRecords == data = FiveRecordIndex

StaleFrame ==
    /\ FiveRecords
    /\ input = StalenessScript
    /\ events_read = 3
    /\ matcher = <<97>>

StaleConfirm ==
    /\ FiveRecords
    /\ input = StalenessScript
    /\ events_read = 5
    /\ ui.text_input = <<97, 98>>
    /\ Len(results) = 2

\* C5 as stated: in the staleness scenario (5 rows, row 3 selected, a
\* keystroke narrows the results to 2 rows) the confirmation reports no
\* selection.
C5_StaleConfirmReportsNothing ==
    StaleConfirm => (selection = <<>> /\ printed = <<>>)

\* C5, amended: the scenario reaches 5 rows with row 3 selected; the narrowing
\* keystroke resets the selected row to 0, and the confirmation reports row 0
\* of the 2 remaining rows. In general every text change resets the selected
\* row, the selected row of a frame is below its row count, the results are
\* those of the current text, and a reported index is the selected row and is
\* below the current result count.
C5_ConfirmReportsCurrentRow ==
    /\ [](StaleFrame => (Len(results) = 5 /\ ui.max_items = 5 /\ ui.selected_item = 3))
    /\ [](StaleConfirm => (/\ selection = <<0>>
                           /\ pc = "done" => printed = <<results[1].item>>))
    /\ [](pc = "events" =>
            /\ results = DBView_find_matches(DB_view(data), ui.text_input, <<>>)
            /\ ui.max_items = Len(top_items(results))
            /\ (ui.selected_item = 0 \/ ui.selected_item < ui.max_items))
    /\ [](selection # <<>> =>
            /\ selection[1] = ui.selected_item
            /\ selection[1] < Len(results)
            /\ results = DBView_find_matches(DB_view(data), ui.text_input, <<>>))
    /\ [][(Handled /\ ui_event' = "PromptUpdated") => ui'.selected_item = 0]_vars

C5_Witness ==
    /\ StaleConfirm
    /\ pc = "done"
    /\ printed = <<results[1].item>>
    /\ printed[1] \in {<<97, 98>>, <<98, 97, 98>>}

\* C6: a seed query with exactly one match is reported at once: no session is
\* constructed, no frame rendered, no event read. With any other number of
\* matches nothing is reported at once, the session is constructed and the
\* loop is entered with the first frame rendered (handle_find returns the
\* error instead if the construction or the first render fails).
C6_FastPath ==
    /\ [][(pc = "find" /\ pc' # "find") =>
            IF Len(results') = 1
            THEN /\ pc' = "done"
                 /\ printed' = <<results'[1].item>>
                 /\ raw_mode' = FALSE
                 /\ err' = "none"
                 /\ UNCHANGED prompt_vars
            ELSE /\ printed' = <<>>
                 /\ pc' # "done"
                 /\ err' = "none" =>
                        /\ pc' = "events"
                        /\ raw_mode'
                        /\ ui' = render(PromptUI_new(matcher'), top_items(results'),
                                        DEFAULT_HEIGHT)]_vars
    /\ []((pc # "find" /\ events_read = 0 /\ Len(results) = 1) =>
            (pc = "done" /\ NoSession /\ ~raw_mode /\ printed = <<results[1].item>>))

C6_Witness ==
    /\ FiveRecords
    /\ matcher = <<97, 97>>
    /\ pc = "done"
    /\ NoSession
    /\ printed = <<(<<97, 97>>)>>

\* C7: the terminal is in raw mode exactly while the session exists; every way
\* out of the loop (selection, cancel, end of input, error of render or of the
\* event read) goes through the release; the release leaves the selection, the
\* error and the results alone and continues by them whether or not quit()
\* failed; a record is printed only with the terminal released.
C7_ReleasedOnEveryExit ==
    /\ [](raw_mode <=> pc \in {"events", "drop"})
    /\ [][(pc = "events" /\ pc' # "events") => pc' = "drop"]_vars
    /\ [][(pc = "drop" /\ pc' # "drop") =>
            /\ ~raw_mode'
            /\ UNCHANGED <<selection, err, results, printed>>
            /\ pc' = IF err = "none" THEN "print" ELSE "failed"]_vars
    /\ [][printed' # printed => (~raw_mode /\ ~raw_mode')]_vars
    /\ []((pc = "done" /\ ui # NoUI) =>
            printed = IF selection # <<>>
                      THEN <<results[selection[1] + 1].item>>
                      ELSE <<>>)

C7_Witness ==
    /\ pc = "done"
    /\ quit_failed
    /\ ~raw_mode
    /\ selection = <<1>>
    /\ printed = <<results[2].item>>

(***************************************************************************)
(* tui.rs: handle_event applied to prompt states with any short text, any  *)
(* cursor position in it and any selected row of the last frame.           *)
(***************************************************************************)
MaxTextLen == 4     \* length of the arbitrary texts
MaxEdits == 1       \* number of events handled in one behaviour

EditAlphabet == {97, 32, 47}

\* "ground control to major tom", the text of the tests of move_cursor
GroundControl ==
    <<103, 114, 111, 117, 110, 100, 32, 99, 111, 110, 116, 114, 111, 108, 32,
      116, 111, 32, 109, 97, 106, 111, 114, 32, 116, 111, 109>>

EditTexts == StringsUpTo(EditAlphabet, MaxTextLen) \cup {GroundControl}

\* every chord of the arms that edit, move by words, select or cancel
EditEvents ==
    {Key("Backspace"), Ctrl(104), Alt(127), Ctrl(119),
     Key("Up"), Ctrl(112), Key("Down"), Ctrl(110),
     Key("CtrlLeft"), Key("AltLeft"), Alt(98),
     Key("CtrlRight"), Key("AltRight"), Alt(102),
     Ctrl(99), Ctrl(100), Char(98), Key("Esc")}

\* a session after a frame of `rows` rows, with the cursor and the selected
\* row moved anywhere
EditInit ==
    /\ \E text \in EditTexts, rows \in 0..MaxRows :
         \E c \in 0..Len(text), sel \in 0..(IF rows = 0 THEN 0 ELSE rows - 1) :
            ui = [render(PromptUI_new(text), Repeat(<<97>>, rows), DEFAULT_HEIGHT)
                    EXCEPT !.text_cursor = c, !.selected_item = sel]
    /\ event = NoEvent
    /\ ui_event = None
    /\ events_read = 0
    /\ data = DB_empty
    /\ add_result = "none"
    /\ matcher = <<>>
    /\ target = <<>>
    /\ score_out = <<>>
    /\ results = <<>>
    /\ NoFind
    /\ NoUrl
    /\ NoTerm
    /\ NoWalk

\* mutation: the arm of Down compares selected_item, not selected_item + 1,
\* with max_items
EditEvent_down_over(ev) ==
    /\ events_read < MaxEdits
    /\ LET r == IF ev \in {Key("Down"), Ctrl(110)} /\ ui.selected_item < ui.max_items
                THEN [ui |-> [ui EXCEPT !.selected_item = ui.selected_item + 1],
                      ret |-> "SelectionUpdated"]
                ELSE handle_event(ui, ev)
       IN  /\ ui' = r.ui
           /\ ui_event' = r.ret
    /\ event' = ev
    /\ events_read' = events_read + 1
    /\ UNCHANGED <<data, add_result, matcher, target, score_out, results, find_vars, url_vars, term_vars, walk_vars>>

EditEvent(ev) ==
    /\ events_read < MaxEdits
    /\ LET r == handle_event(ui, ev)
       IN  /\ ui' = r.ui
           /\ ui_event' = r.ret
    /\ event' = ev
    /\ events_read' = events_read + 1
    /\ UNCHANGED <<data, add_result, matcher, target, score_out, results, find_vars, url_vars, term_vars, walk_vars>>

EditNext == \E ev \in EditEvents : EditEvent(ev)

SpecEdit == EditInit /\ [][EditNext]_vars

\* an event has just been handled
Edited == events_read' = events_read + 1

\* C11: an event that changes the query text leaves the selected row at 0 and
\* emits PromptUpdated, whatever the selected row was.
C11_TextChangeResetsSelection ==
    [][(Edited /\ ui'.text_input # ui.text_input)
        => (ui'.selected_item = 0 /\ ui_event' = "PromptUpdated")]_vars

C11_Witness ==
    /\ events_read = MaxEdits
    /\ event = Ctrl(119)
    /\ ui_event = "PromptUpdated"
    /\ ui.selected_item = 0
    /\ ui.max_items = MaxRows
    /\ ui.text_input = <<97, 32>>

\* the entry as DB::add hands it to str_sorted_insert is a line of the buffer
IsLine(d, entry) ==
    \E k \in 1..NumLines(d) : split(d, {NL})[k] = trim(entry)

\* C12: DB::add is idempotent: in every reachable buffer, adding an entry
\* whose record is already a line leaves the buffer unchanged, and adding any
\* entry twice gives the buffer of adding it once.
C12_AddIdempotent ==
    \A entry \in AddEntries :
        LET once == DB_add(data, entry)
        IN  /\ (once.result = "ok" /\ IsLine(data, entry)) => once.data = data
            /\ once.result = "ok" => IsLine(once.data, entry)
            /\ DB_add(once.data, entry) = once

C12_Witness ==
    /\ add_result = "ok"
    /\ data = <<97, 10, 10, 98>>
    /\ IsLine(data, <<98>>)
    /\ DB_add(data, <<98>>).data = data

\* the trimmed entry contains a newline
HasNewline(entry) == \E i \in 1..Len(trim(entry)) : trim(entry)[i] = NL

\* C13: DB::add fails exactly when the trimmed entry contains a newline; a
\* failed add leaves the buffer unchanged; a successful add makes the trimmed
\* entry a line and adds at most one line to the buffer, a line being a
\* segment of split('\n') as str_sorted_insert and DB::view take them: the
\* buffer grows by nothing or by the entry and one newline.
C13_AddFailsOnNewline ==
    [][\A entry \in AddEntries :
        Add(entry) =>
            /\ add_result' = "err" <=> HasNewline(entry)
            /\ add_result' = "err" => data' = data
            /\ add_result' = "ok" =>
                /\ IsLine(data', entry)
                /\ NumLines(data') <= NumLines(data) + 1
                /\ Len(data') \in {Len(data), Len(data) + Len(trim(entry)) + 1}]_vars

C13_Witness ==
    /\ add_result = "err"
    /\ data = <<97, 10, 98>>

CancelChords == {Ctrl(99), Ctrl(100)}

\* C14: in the loop either cancel chord emits Exit and leaves the prompt state
\* as it was; the loop is left without a selection and without an error, and
\* from then on no record is printed.
C14_CancelStopsWithoutRecord ==
    /\ [][(Handled /\ event' \in CancelChords) =>
            /\ ui_event' = "Exit"
            /\ ui' = ui
            /\ pc' = "drop"
            /\ selection' = <<>>
            /\ UNCHANGED <<results, matcher, err, printed>>]_vars
    /\ [](ui_event = "Exit" =>
            /\ event \in CancelChords
            /\ pc \in {"drop", "print", "done"}
            /\ err = "none"
            /\ selection = <<>>
            /\ printed = <<>>)

C14_Witness ==
    /\ event = Ctrl(100)
    /\ ui_event = "Exit"
    /\ pc = "done"
    /\ ui.selected_item = 1
    /\ Len(results) = 5
    /\ printed = <<>>

\* C15: an iteration recomputes the results exactly when the event is
\* PromptUpdated, from the text as the event left it, and renders them;
\* SelectionUpdated and CursorUpdated render with the results unchanged; an
\* input without event changes neither the results nor the frame; when the
\* next event is read the frame shows the results of the current text.
C15_RequeryThenRender ==
    /\ [][Handled =>
            LET after    == handle_event(ui, event').ui
                drawn    == /\ rendered' = rendered + 1
                            /\ ui' = render(after, top_items(results'), DEFAULT_HEIGHT)
                            /\ pc' = "events"
                rejected == /\ rendered' = rendered
                            /\ err' = "render"
                            /\ pc' = "drop"
            IN  /\ ui_event' = "PromptUpdated" =>
                    /\ matcher' = after.text_input
                    /\ results' = DBView_find_matches(DB_view(data), after.text_input, <<>>)
                    /\ drawn \/ rejected
                /\ ui_event' # "PromptUpdated" => UNCHANGED <<matcher, results>>
                /\ ui_event' \in {"SelectionUpdated", "CursorUpdated"} => (drawn \/ rejected)
                /\ ui_event' = None =>
                    /\ rendered' = rendered
                    /\ ui' = after
                    /\ UNCHANGED <<pc, err>>]_vars
    /\ [](pc = "events" =>
            /\ rendered >= 1
            /\ rendered <= events_read + 1
            /\ matcher = ui.text_input
            /\ results = DBView_find_matches(DB_view(data), ui.text_input, <<>>)
            /\ ui.max_items = Len(top_items(results))
            /\ ui.lines_printed = 1 + ui.max_items)

C15_Witness ==
    /\ FiveRecords
    /\ input = RequeryScript
    /\ events_read = 3
    /\ rendered = 3
    /\ pc = "events"
    /\ matcher = <<97, 98>>
    /\ Len(results) = 2
    /\ ui.max_items = 2

\* C16: the result set that the loop holds has at most max_find_items
\* entries, and no frame has more than max_find_items rows.
C16_ResultsCapped ==
    /\ Len(results) <= max_find_items
    /\ ui.max_items <= max_find_items

\* the 0-based positions of the boundary characters of a text
Boundaries(text) == {i \in 0..(Len(text) - 1) : text[i + 1] \in Punctuation}

Min(S) == CHOOSE i \in S : \A j \in S : i <= j
Max(S) == CHOOSE i \in S : \A j \in S : i >= j

\* the first boundary character at or after `from`, the text end if none
NextBoundary(text, from) ==
    LET B == {i \in Boundaries(text) : i >= from}
    IN  IF B = {} THEN Len(text) ELSE Min(B)

\* where word-right movement goes from c, by the rule of the claim
WordRight(text, c) ==
    IF c >= Len(text) THEN c
    ELSE IF c \in Boundaries(text)
         THEN LET run_end == Min({k \in c..Len(text) : k \notin Boundaries(text)})
              IN  NextBoundary(text, run_end)
         ELSE NextBoundary(text, c + 1)

WordRightChords == {Key("CtrlRight"), Key("AltRight"), Alt(102)}

GroundRight == (0 :> 6) @@ (3 :> 6) @@ (6 :> 14) @@ (14 :> 17) @@ (17 :> 23)
                @@ (23 :> 27) @@ (27 :> 27)

\* C17: a word-right chord moves the cursor from c < len over the run of
\* boundary characters at c, if any, and on to the next boundary character,
\* or to the text end if there is none; at the text end it stays; on
\* "ground control to major tom" it moves as the claim lists.
C17_WordRight ==
    [][(Edited /\ event' \in WordRightChords) =>
        /\ ui'.text_cursor = WordRight(ui.text_input, ui.text_cursor)
        /\ ui'.text_cursor = move_cursor(ui.text_input, ui.text_cursor, "Right", "Word")
        /\ (ui.text_input = GroundControl /\ ui.text_cursor \in DOMAIN GroundRight)
                => ui'.text_cursor = GroundRight[ui.text_cursor]
        /\ ui'.text_cursor >= ui.text_cursor
        /\ ui'.text_input = ui.text_input]_vars

C17_Witness ==
    /\ events_read = 1
    /\ event = Alt(102)
    /\ ui.text_input = GroundControl
    /\ ui.text_cursor = 14

\* the index just after the last boundary character before `before`, 0 if none
PrevWordStart(text, before) ==
    LET B == {i \in Boundaries(text) : i < before}
    IN  IF B = {} THEN 0 ELSE Max(B) + 1

\* where word-left movement goes from c, by the rule of the claim
WordLeft(text, c) ==
    IF c = 0 THEN 0
    ELSE IF (c - 1) \in Boundaries(text)
         THEN LET kept == {k \in 0..(c - 1) : k \notin Boundaries(text)}
              IN  IF kept = {} THEN 0 ELSE PrevWordStart(text, Max(kept))
         ELSE PrevWordStart(text, c - 1)

WordLeftChords == {Key("CtrlLeft"), Key("AltLeft"), Alt(98)}

GroundLeft == (6 :> 0) @@ (7 :> 0) @@ (8 :> 7) @@ (14 :> 7) @@ (17 :> 15)
                @@ (23 :> 18) @@ (27 :> 24)

\* C18: a word-left chord moves the cursor from c > 0 over the run of boundary
\* characters before c, if any, and back to just after the previous boundary
\* character, or to 0 if there is none; at 0 it stays; on "ground control to
\* major tom" it moves as the claim lists.
C18_WordLeft ==
    [][(Edited /\ event' \in WordLeftChords) =>
        /\ ui'.text_cursor = WordLeft(ui.text_input, ui.text_cursor)
        /\ ui'.text_cursor = move_cursor(ui.text_input, ui.text_cursor, "Left", "Word")
        /\ (ui.text_input = GroundControl /\ ui.text_cursor \in DOMAIN GroundLeft)
                => ui'.text_cursor = GroundLeft[ui.text_cursor]
        /\ ui'.text_cursor <= ui.text_cursor
        /\ ui'.text_input = ui.text_input]_vars

C18_Witness ==
    /\ events_read = 1
    /\ event = Alt(98)
    /\ ui.text_input = GroundControl
    /\ ui.text_cursor = 15

WordDeleteChords == {Ctrl(104), Alt(127), Ctrl(119)}

\* C19: a word-delete chord with the cursor at c > 0 removes the characters
\* from the word-left target up to the cursor, keeps the text before the
\* target and from the cursor on, puts the cursor on the target, resets the
\* selected row and emits PromptUpdated; at c = 0 it changes nothing and
\* emits no event.
C19_WordDelete ==
    [][(Edited /\ event' \in WordDeleteChords) =>
        LET text == ui.text_input
            c    == ui.text_cursor
            to   == WordLeft(text, c)
        IN  IF c = 0
            THEN ui' = ui /\ ui_event' = None
            ELSE /\ to < c
                 /\ ui'.text_input = SubSeq(text, 1, to) \o SubSeq(text, c + 1, Len(text))
                 /\ Len(ui'.text_input) = Len(text) - (c - to)
                 /\ ui'.text_cursor = to
                 /\ ui'.selected_item = 0
                 /\ ui'.max_items = ui.max_items
                 /\ ui_event' = "PromptUpdated"]_vars

C19_Witness ==
    /\ events_read = 1
    /\ event = Alt(127)
    /\ ui_event = "PromptUpdated"
    /\ ui.text_cursor = 7
    /\ ui.text_input = SubSeq(GroundControl, 1, 7) \o SubSeq(GroundControl, 15, 27)

UpChords == {Key("Up"), Ctrl(112)}
DownChords == {Key("Down"), Ctrl(110)}

\* Up or Down has moved the selected row by `step`, or has done nothing
Moved(moves, step) ==
    IF moves
    THEN /\ ui' = [ui EXCEPT !.selected_item = ui.selected_item + step]
         /\ ui_event' = "SelectionUpdated"
    ELSE /\ ui' = ui
         /\ ui_event' = None

\* C20 as stated: Down increments the selected row if and only if it is less
\* than the number of rows of the last frame.
C20_DownBelowRowCount ==
    [][(Edited /\ event' \in DownChords)
        => Moved(ui.selected_item < ui.max_items, 1)]_vars

\* C20, amended: Up decrements the selected row if and only if it is greater
\* than 0; Down increments it if and only if the row after it is a row of the
\* last frame (selected row + 1 < rows rendered); each emits SelectionUpdated
\* when the row changed and otherwise leaves the state as it was and emits
\* nothing; text and cursor are never changed, and the selected row stays a
\* row of the frame.
C20_SelectionMoves ==
    /\ [][(Edited /\ event' \in UpChords) => Moved(ui.selected_item > 0, -1)]_vars
    /\ [][(Edited /\ event' \in DownChords)
            => Moved(ui.selected_item + 1 < ui.max_items, 1)]_vars
    /\ [][(Edited /\ event' \in UpChords \cup DownChords) =>
            /\ ui'.text_input = ui.text_input
            /\ ui'.text_cursor = ui.text_cursor
            /\ ui'.max_items = ui.max_items]_vars
    /\ [](ui.selected_item = 0 \/ ui.selected_item < ui.max_items)

C20_Witness ==
    /\ events_read = 1
    /\ event = Ctrl(110)
    /\ ui_event = None
    /\ ui.max_items = MaxRows
    /\ ui.selected_item = MaxRows - 1

(***************************************************************************)
(* tui.rs: the character, Home and End movements of handle_event, from the *)
(* same prompt states.                                                     *)
(***************************************************************************)
LeftChords == {Key("Left"), Ctrl(98)}
RightChords == {Key("Right"), Ctrl(102)}
HomeChords == {Key("Home"), Ctrl(97)}
EndChords == {Key("End"), Ctrl(101)}

CursorEvents == LeftChords \cup RightChords \cup HomeChords \cup EndChords

CursorNext == \E ev \in CursorEvents : EditEvent(ev)

SpecCursor == EditInit /\ [][CursorNext]_vars

\* C21: Left and Right move the cursor by one character within 0..length,
\* Home puts it at 0 and End at the length; each emits CursorUpdated whether
\* or not the cursor moved, and the rest of the prompt state is unchanged.
C21_CharMovement ==
    [][Edited =>
        LET c   == ui.text_cursor
            len == Len(ui.text_input)
        IN  /\ event' \in LeftChords => ui'.text_cursor = IF c > 0 THEN c - 1 ELSE 0
            /\ event' \in RightChords => ui'.text_cursor = IF c < len THEN c + 1 ELSE len
            /\ event' \in HomeChords => ui'.text_cursor = 0
            /\ event' \in EndChords => ui'.text_cursor = len
            /\ event' \in CursorEvents =>
                /\ ui_event' = "CursorUpdated"
                /\ ui' = [ui EXCEPT !.text_cursor = ui'.text_cursor]]_vars

C21_Witness ==
    /\ events_read = 1
    /\ event = Ctrl(102)
    /\ ui_event = "CursorUpdated"
    /\ ui.text_input = <<97, 32>>
    /\ ui.text_cursor = 2
    /\ ui.selected_item = 1

\* C22: a character received below the capacity is inserted at the cursor and
\* the cursor advances by one; Backspace with the cursor behind a character
\* removes that character and moves the cursor back by one; both emit
\* PromptUpdated; Backspace at the text start changes nothing and emits no
\* event.
C22_InsertAndBackspace ==
    [][Edited =>
        LET text == ui.text_input
            c    == ui.text_cursor
            len  == Len(ui.text_input)
        IN  /\ (event'.key = "Char" /\ event' # Char(10) /\ len < QUERY_MAX_CHAR_LEN) =>
                /\ ui'.text_input = SubSeq(text, 1, c) \o <<event'.ch>> \o SubSeq(text, c + 1, len)
                /\ ui'.text_cursor = c + 1
                /\ ui_event' = "PromptUpdated"
            /\ (event' = Key("Backspace") /\ c > 0) =>
                /\ ui'.text_input = SubSeq(text, 1, c - 1) \o SubSeq(text, c + 1, len)
                /\ ui'.text_cursor = c - 1
                /\ ui_event' = "PromptUpdated"
            /\ (event' = Key("Backspace") /\ c = 0) =>
                /\ ui' = ui
                /\ ui_event' = None]_vars

C22_Witness ==
    /\ events_read = 1
    /\ event = Char(98)
    /\ ui_event = "PromptUpdated"
    /\ ui.text_input = <<97, 98, 32>>
    /\ ui.text_cursor = 2

\* ---------------------------------------------------------------------------
\* DB::find_matches (db.rs): the filter_map over data.split('\n')
\* ---------------------------------------------------------------------------

\* the closure of DB::find_matches applied to the first n segments
RECURSIVE matching_lines(_, _, _)
matching_lines(ls, m, n) ==
    IF n = 0 THEN <<>>
    ELSE LET a == ls[n]
             kept == IF m = <<>> THEN <<a>>
                     ELSE IF trim(a) = <<>> THEN <<>>
                     ELSE IF calc_score(m, trim(a)) = 0 THEN <<>>
                     ELSE <<trim(a)>>
         IN  matching_lines(ls, m, n - 1) \o kept

\* DB::find_matches(matcher), collected
DB_find_matches(d, m) == LET ls == split(d, {NL}) IN matching_lines(ls, m, Len(ls))

\* the buffers of the query specification: the empty index, an index built
\* by from_entries, an unterminated file as load reads it, and each of
\* them after one add
QueryBuffers ==
    LET built == {DB_empty} \cup {DB_from_entries(v) : v \in ViewEntries}
                    \cup {join_lines(v) : v \in ViewEntries}
    IN  built \cup {DB_add(d, e).data : d \in built, e \in {<<97>>, <<98, 97>>}}

QueryInit ==
    /\ data \in QueryBuffers
    /\ results = <<>>
    /\ matcher = <<>>
    /\ target = <<>>
    /\ score_out = <<>>
    /\ add_result = "none"
    /\ NoSession
    /\ NoFind
    /\ NoUrl
    /\ NoTerm
    /\ NoWalk

FindMatches(q) ==
    /\ matcher' = q
    /\ results' = DB_find_matches(data, q)
    /\ UNCHANGED <<data, add_result, target, score_out, prompt_vars, find_vars, url_vars, term_vars, walk_vars>>

QueryNext == \E q \in ViewQueries : FindMatches(q)

SpecQuery == QueryInit /\ [][QueryNext]_vars

\* the trimmed, non-empty lines of the buffer d that the query q keeps
RECURSIVE kept_lines(_, _, _)
kept_lines(ls, q, n) ==
    IF n = 0 THEN <<>>
    ELSE kept_lines(ls, q, n - 1) \o
            (IF trim(ls[n]) # <<>> /\ (q = <<>> \/ calc_score(q, trim(ls[n])) # 0)
             THEN <<trim(ls[n])>> ELSE <<>>)

\* C23: find_matches(q) yields exactly the trimmed, non-empty lines of the
\* buffer whose score against q is nonzero, and every non-empty trimmed line
\* when q is empty; it never yields an empty line or an untrimmed line.
C23_YieldsTrimmedNonEmptyLines ==
    [][\A q \in ViewQueries :
          FindMatches(q) =>
              /\ results' = LET ls == split(data, {NL}) IN kept_lines(ls, q, Len(ls))
              /\ \A i \in 1..Len(results') :
                    results'[i] # <<>> /\ trim(results'[i]) = results'[i]]_vars

\* ---------------------------------------------------------------------------
\* Loading the index file (db.rs DB::load, app.rs handlers)
\* ---------------------------------------------------------------------------

\* what std::fs::read_to_string gives for the index file
Absent == [kind |-> "absent", data |-> <<>>]
IoError == [kind |-> "io_error", data |-> <<>>]
Content(d) == [kind |-> "content", data |-> d]

\* DB::load: Ok(Some(db)), Ok(None) on NotFound, Err otherwise
DB_load(f) ==
    IF f.kind = "content" THEN [err |-> FALSE, db |-> <<f.data>>]
    ELSE IF f.kind = "absent" THEN [err |-> FALSE, db |-> <<>>]
    ELSE [err |-> TRUE, db |-> <<>>]

\* Option<DB>::unwrap_or_default
unwrap_or_default(o) == IF o = <<>> THEN DB_empty ELSE o[1]

\* App::load_db_or_fail: the database, or the error that ends the command
load_db_or_fail(f) ==
    LET r == DB_load(f)
    IN  IF r.err THEN [err |-> "io", db |-> DB_empty]
        ELSE IF r.db = <<>> THEN [err |-> "DB not found", db |-> DB_empty]
        ELSE [err |-> "none", db |-> r.db[1]]

starts_with(s, p) == Len(p) <= Len(s) /\ SubSeq(s, 1, Len(p)) = p

\* DB::find_by_prefix(prefix), collected
DB_find_by_prefix(d, prefix) ==
    LET prefix_trimmed == trim(prefix)
    IN  SelectSeq(split(d, {NL}),
                  LAMBDA a : prefix_trimmed = <<>> \/ starts_with(trim(a), prefix_trimmed))

LoadFiles ==
    {Absent, IoError} \cup {Content(d) : d \in {DB_empty} \cup
        {DB_from_entries(v) : v \in ViewEntries} \cup {join_lines(v) : v \in ViewEntries}}

InitProjects == {<<97>>, <<98, 47, 97>>, <<97, 47, 98>>}

LoadInit ==
    /\ data = DB_empty
    /\ results = <<>>
    /\ matcher = <<>>
    /\ target = <<>>
    /\ score_out = <<>>
    /\ add_result = "none"
    /\ NoSession
    /\ NoFind
    /\ NoUrl
    /\ NoTerm
    /\ NoWalk

\* the end of App::handle_init: load or default, add the project, save
HandleInit(f, project) ==
    LET r == DB_load(f)
        a == DB_add(unwrap_or_default(r.db), project)
    IN  /\ pc = "idle"
        /\ IF r.err
           THEN /\ err' = "io"
                /\ pc' = "failed"
                /\ UNCHANGED <<data, add_result>>
           ELSE /\ data' = a.data
                /\ add_result' = a.result
                /\ err' = IF a.result = "ok" THEN "none" ELSE "add"
                /\ pc' = IF a.result = "ok" THEN "done" ELSE "failed"
        /\ printed' = <<>>
        /\ results' = <<>>
        /\ matcher' = <<>>
        /\ UNCHANGED <<target, score_out, url_vars, term_vars, walk_vars, prompt_vars, raw_mode, input, selection,
                       quit_failed, rendered>>

\* App::handle_list: every match is written, by score or by prefix; the
\* process runs one command and exits
HandleList(f, q, prefix_search) ==
    LET r == load_db_or_fail(f)
    IN  /\ pc = "idle"
        /\ err' = r.err
        /\ matcher' = q
        /\ add_result' = "none"
        /\ IF r.err # "none"
           THEN /\ pc' = "failed"
                /\ printed' = <<>>
                /\ UNCHANGED data
           ELSE /\ pc' = "done"
                /\ data' = r.db
                /\ printed' = IF prefix_search THEN DB_find_by_prefix(r.db, q)
                              ELSE DB_find_matches(r.db, q)
        /\ results' = <<>>
        /\ UNCHANGED <<target, score_out, url_vars, term_vars, walk_vars, prompt_vars, raw_mode, input, selection,
                       quit_failed, rendered>>

\* App::handle_run: the command is run (or named, when dry) in the directory
\* of every match; without a command nothing is loaded
HandleRun(f, q, has_command) ==
    LET r == load_db_or_fail(f)
    IN  /\ pc = "idle"
        /\ matcher' = q
        /\ add_result' = "none"
        /\ printed' = <<>>
        /\ IF ~has_command
           THEN /\ pc' = "failed"
                /\ err' = "none"
                /\ UNCHANGED <<data, results>>
           ELSE IF r.err # "none"
           THEN /\ pc' = "failed"
                /\ err' = r.err
                /\ UNCHANGED <<data, results>>
           ELSE /\ pc' = "done"
                /\ err' = "none"
                /\ data' = r.db
                /\ results' = DB_find_matches(r.db, q)
        /\ UNCHANGED <<target, score_out, url_vars, term_vars, walk_vars, prompt_vars, raw_mode, input, selection,
                       quit_failed, rendered>>

\* App::handle_find up to its first query: load_db_or_fail, view, find_matches
HandleFind(f, q) ==
    LET r == load_db_or_fail(f)
    IN  /\ pc = "idle"
        /\ err' = r.err
        /\ matcher' = q
        /\ add_result' = "none"
        /\ printed' = <<>>
        /\ IF r.err # "none"
           THEN /\ pc' = "failed"
                /\ results' = <<>>
                /\ UNCHANGED data
           ELSE /\ pc' = "find"
                /\ data' = r.db
                /\ results' = DBView_find_matches(DB_view(r.db), q, <<>>)
        /\ UNCHANGED <<target, score_out, url_vars, term_vars, walk_vars, prompt_vars, raw_mode, input, selection,
                       quit_failed, rendered>>

\* what the scan of the projects directory enumerates: any records, in any
\* order, repeated or not
ScanEntries == StringsUpTo(ViewRecords, MaxInitRec + 1)

\* App::handle_update_index: the index is rebuilt from the scan and saved
HandleUpdateIndex(exists, entries) ==
    /\ pc = "idle"
    /\ IF exists
       THEN /\ data' = DB_from_entries(entries)
            /\ pc' = "done"
       ELSE /\ pc' = "failed"
            /\ UNCHANGED data
    /\ err' = "none"
    /\ add_result' = "none"
    /\ printed' = <<>>
    /\ results' = <<>>
    /\ matcher' = <<>>
    /\ UNCHANGED <<target, score_out, url_vars, term_vars, walk_vars, prompt_vars, raw_mode, input, selection,
                   quit_failed, rendered>>

LoadNext ==
    \/ \E f \in LoadFiles, project \in InitProjects : HandleInit(f, project)
    \/ \E exists \in BOOLEAN, entries \in ScanEntries : HandleUpdateIndex(exists, entries)
    \/ \E f \in LoadFiles, q \in ViewQueries, prefix_search \in BOOLEAN :
          HandleList(f, q, prefix_search)
    \/ \E f \in LoadFiles, q \in ViewQueries, has_command \in BOOLEAN :
          HandleRun(f, q, has_command)
    \/ \E f \in LoadFiles, q \in ViewQueries : HandleFind(f, q)

SpecLoad == LoadInit /\ [][LoadNext]_vars

\* C24: a missing index file is an empty index and not an error: load tells
\* "absent" from an I/O failure, and init, list, run and find, given no file,
\* do what they do given an empty file and do not fail.
C24_AbsentIsEmptyIndex ==
    [][/\ DB_load(Absent) # DB_load(IoError)
       /\ \A project \in InitProjects :
             HandleInit(Absent, project) =>
                 HandleInit(Content(DB_empty), project) /\ err' = "none"
       /\ \A q \in ViewQueries, prefix_search \in BOOLEAN :
             HandleList(Absent, q, prefix_search) =>
                 HandleList(Content(DB_empty), q, prefix_search) /\ err' = "none"
       /\ \A q \in ViewQueries :
             HandleRun(Absent, q, TRUE) =>
                 HandleRun(Content(DB_empty), q, TRUE) /\ err' = "none"
       /\ \A q \in ViewQueries :
             HandleFind(Absent, q) => HandleFind(Content(DB_empty), q) /\ err' = "none"]_vars

\* ---------------------------------------------------------------------------
\* Comparative scores (fuzzy.rs tests::score_comparative)
\* ---------------------------------------------------------------------------
MaxGrowth == 2      \* how many characters longer the replacing token is

\* the candidate made of the given tokens, '/' between them
RECURSIVE slash_join(_)
slash_join(toks) ==
    IF toks = <<>> THEN <<>>
    ELSE IF Len(toks) = 1 THEN Head(toks)
    ELSE Head(toks) \o <<47>> \o slash_join(Tail(toks))

\* "go", "github.com/golang/go", "github.com/jpallari/gorg",
\* "github.com/jpallari/hugo"
Str_go == <<103, 111>>
Str_github_com == <<103, 105, 116, 104, 117, 98, 46, 99, 111, 109, 47>>
Str_golang_go == Str_github_com \o <<103, 111, 108, 97, 110, 103, 47, 103, 111>>
Str_jpallari == Str_github_com \o <<106, 112, 97, 108, 108, 97, 114, 105, 47>>
Str_jpallari_gorg == Str_jpallari \o <<103, 111, 114, 103>>
Str_jpallari_hugo == Str_jpallari \o <<104, 117, 103, 111>>

\* C25: for a single-token query p, a candidate with a token equal to p
\* scores strictly higher than the same candidate with that token replaced
\* by a longer token starting with p, which scores strictly higher than the
\* candidate with, in that position, a token of that length in which p first
\* occurs at a later offset; and score("go", "github.com/golang/go") >
\* score("go", ".../jpallari/gorg") > score("go", ".../jpallari/hugo").
C25_FullerAndEarlierScoreHigher ==
    score_out # <<>> /\ Len(Keywords_new(matcher)) = 1 =>
        LET parts == Keywords_new(matcher)
            p     == parts[1]
            toks  == Keywords_new(target)
            Longer == UNION {[1..n -> {97, 98}] :
                                n \in (Len(p) + 1)..(Len(p) + MaxGrowth)}
            S(ts) == Keywords_score(parts, slash_join(ts))
        IN  /\ \A ti \in 1..Len(toks) :
                  toks[ti] = p =>
                      /\ score_out[1] = S(toks)
                      /\ \A t \in Longer :
                            match_index(t, p) = 0 =>
                                /\ score_out[1] > S([toks EXCEPT ![ti] = t])
                                /\ \A u \in Longer :
                                      Len(u) = Len(t) /\ match_index(u, p) > 0 =>
                                          S([toks EXCEPT ![ti] = t])
                                              > S([toks EXCEPT ![ti] = u])
            /\ Keywords_score(Keywords_new(Str_go), Str_golang_go)
                   > Keywords_score(Keywords_new(Str_go), Str_jpallari_gorg)
            /\ Keywords_score(Keywords_new(Str_go), Str_jpallari_gorg)
                   > Keywords_score(Keywords_new(Str_go), Str_jpallari_hugo)

\* "a" has been scored against "b/a", whose second token equals the query
C25_Witness ==
    /\ matcher = <<97>>
    /\ target = <<98, 47, 97>>
    /\ score_out = <<Keywords_score(<<<<97>>>>, <<98, 47, 97>>)>>
    /\ score_out[1] > 0

\* ---------------------------------------------------------------------------
\* The score as a sum of contributions
\* ---------------------------------------------------------------------------

\* ScoreScale times filled*2 + index*2*distance for the query token p at index
\* pi and the candidate token t at index ti, 0 when t does not contain p
claimed_contribution(p, pi, t, ti) ==
    LET i == match_index(t, p)
        gap == IF ti >= pi THEN ti - pi ELSE pi - ti
        tenths == IF gap <= 3 THEN 10 - gap ELSE 6
    IN  IF i < 0 THEN 0
        ELSE (2 * Len(p) * ScoreScale) \div Len(t)
                + (2 * (Len(t) - i) * tenths * ScoreScale) \div (10 * Len(t))

\* the sum of the contributions of the first n pairs (query token, candidate
\* token), pairs counted row by row
RECURSIVE claimed_sum(_, _, _)
claimed_sum(parts, toks, n) ==
    IF n = 0 THEN 0
    ELSE LET pi == (n - 1) \div Len(toks)
             ti == (n - 1) % Len(toks)
         IN  claimed_sum(parts, toks, n - 1)
                + claimed_contribution(parts[pi + 1], pi, toks[ti + 1], ti)

\* C26: when every query token occurs in some candidate token, the score is
\* the sum, over all query tokens (index pi) and all candidate tokens (index
\* ti) that contain them, first at offset i, of filled*2 + index*2*distance,
\* filled = len(query token)/len(candidate token), index = 1 - i/len(candidate
\* token), distance = 1.0, 0.9, 0.8, 0.7 for |ti-pi| = 0, 1, 2, 3 and 0.6
\* otherwise.
C26_ScoreIsSumOfContributions ==
    score_out # <<>> =>
        LET parts == Keywords_new(matcher)
            toks  == Keywords_new(target)
        IN  (\A k \in 1..Len(parts) :
                \E n \in 1..Len(toks) : match_index(toks[n], parts[k]) >= 0)
            => score_out[1] = claimed_sum(parts, toks, Len(parts) * Len(toks))

\* "a/a/a/a/a" scored against "ab/ba/a/b/aab": several candidate tokens
\* contain each query token, at every distance and at offsets 0 and 1
C26_Witness ==
    /\ matcher = <<97, 47, 97, 47, 97, 47, 97, 47, 97>>
    /\ target = <<97, 98, 47, 98, 97, 47, 97, 47, 98, 47, 97, 97, 98>>
    /\ score_out # <<>>
    /\ score_out[1] > 0

\* ---------------------------------------------------------------------------
\* DB::from_entries
\* ---------------------------------------------------------------------------
Reverse(v) == [i \in 1..Len(v) |-> v[Len(v) + 1 - i]]

Rotate(v) == IF v = <<>> THEN v ELSE Tail(v) \o <<Head(v)>>

\* C27: from_entries(E) builds the buffer that holds exactly the entries of
\* E in ascending byte order joined by '\n': every entry kept, duplicates
\* included, no other segment added, whatever the order of E.
C27_FromEntriesJoinsSorted ==
    [][\A entries \in ScanEntries :
          HandleUpdateIndex(TRUE, entries) =>
              LET segs == split(data', {NL})
              IN  /\ data' = join_lines(sort_strings(entries))
                  /\ entries # <<>> => Len(segs) = Len(entries)
                  /\ \A i, j \in 1..Len(segs) : i < j => ~str_lt(segs[j], segs[i])
                  /\ data' = DB_from_entries(Reverse(entries))
                  /\ data' = DB_from_entries(Rotate(entries))]_vars

(***************************************************************************)
(* git_url.rs: the conversion of a repository URL to a project path.      *)
(***************************************************************************)
MaxPathPieces == 4  \* number of pieces the path of a URL is made of

\* position of the first c in s, 0 when there is none
find_char(s, c) == First({i \in 1..Len(s) : s[i] = c})

\* str::split_once(c): <<left, right>> for Some, <<>> for None
split_once(s, c) ==
    LET k == find_char(s, c)
    IN  IF k = 0 THEN <<>> ELSE <<SubSeq(s, 1, k - 1), SubSeq(s, k + 1, Len(s))>>

left_of(s, c) == LET r == split_once(s, c) IN IF r = <<>> THEN s ELSE r[1]

right_of(s, c) == LET r == split_once(s, c) IN IF r = <<>> THEN s ELSE r[2]

\* "ssh", "git", "rsync", "file", "http", "https"
UrlScheme_from_str(s) ==
    CASE s = <<115, 115, 104>> -> "Ssh"
      [] s = <<103, 105, 116>> -> "Git"
      [] s = <<114, 115, 121, 110, 99>> -> "Rsync"
      [] s = <<102, 105, 108, 101>> -> "File"
      [] s = <<104, 116, 116, 112>> -> "Http"
      [] s = <<104, 116, 116, 112, 115>> -> "Https"
      [] OTHER -> "None"

\* str::strip_prefix / str::strip_suffix: <<rest>> for Some, <<>> for None
strip_prefix(s, p) ==
    IF starts_with(s, p) THEN <<SubSeq(s, Len(p) + 1, Len(s))>> ELSE <<>>

strip_suffix(s, p) ==
    IF Len(p) <= Len(s) /\ SubSeq(s, Len(s) - Len(p) + 1, Len(s)) = p
    THEN <<SubSeq(s, 1, Len(s) - Len(p))>> ELSE <<>>

\* mutation of scheme_host: the port stays in the host
scheme_host_with_port(url_left) == right_of(url_left, 64)

\* the host of a scheme URL: left_of(right_of(url_left, '@'), ':')
scheme_host(url_left) == left_of(right_of(url_left, 64), 58)

\* the while loop of to_path over the first n parts
RECURSIVE push_parts(_, _)
push_parts(parts, n) ==
    IF n = 0 THEN <<>>
    ELSE LET part0 == trim(parts[n])
             tilde == strip_prefix(part0, <<126>>)
             part1 == IF tilde = <<>> THEN part0 ELSE tilde[1]
             git   == strip_suffix(part1, <<46, 103, 105, 116>>)
             part  == IF n = Len(parts) /\ git # <<>> THEN git[1] ELSE part1
         IN  push_parts(parts, n - 1) \o (IF part # <<>> THEN <<part>> ELSE <<>>)

\* the end of to_path, from `path.push(host_part)` on
to_path_parts(host_part, path_part) ==
    LET parts == split(path_part, {47})
        path  == <<host_part>> \o push_parts(parts, Len(parts))
    IN  IF Len(path) <= 1 THEN [err |-> "parts", path |-> <<>>]
        ELSE [err |-> "none", path |-> path]

\* git_url::to_path(url): the Err, or the path
to_path(url0) ==
    LET url == trim(url0)
        so  == split_once(url, 58)
    IN  IF url = <<>> THEN [err |-> "empty", path |-> <<>>]
        ELSE IF so = <<>> THEN [err |-> "unsupported", path |-> <<>>]
        ELSE IF UrlScheme_from_str(so[1]) = "File" THEN [err |-> "file", path |-> <<>>]
        ELSE IF UrlScheme_from_str(so[1]) # "None"
        THEN LET sp == strip_prefix(so[2], <<47, 47>>)
                 hs == IF sp = <<>> THEN <<>> ELSE split_once(sp[1], 47)
             IN  IF hs = <<>> THEN [err |-> "invalid", path |-> <<>>]
                 ELSE to_path_parts(scheme_host(hs[1]), hs[2])
        ELSE to_path_parts(right_of(so[1], 64), so[2])

UrlPrefixes ==
   {
    \* "", "ssh:", "ssh:/h/"
    <<>>, <<115, 115, 104, 58>>, <<115, 115, 104, 58, 47, 104, 47>>,
    \* "ssh://", "ssh://h", "ssh://h/"
    <<115, 115, 104, 58, 47, 47>>, <<115, 115, 104, 58, 47, 47, 104>>, <<115, 115, 104, 58, 47, 47, 104, 47>>,
    \* "ssh://u@h/", "ssh://u@h:22/", "ssh://h:~/"
    <<115, 115, 104, 58, 47, 47, 117, 64, 104, 47>>, <<115, 115, 104, 58, 47, 47, 117, 64, 104, 58, 50, 50, 47>>, <<115, 115, 104, 58, 47, 47, 104, 58, 126, 47>>,
    \* "git://h/", "rsync://h/", "http://h/"
    <<103, 105, 116, 58, 47, 47, 104, 47>>, <<114, 115, 121, 110, 99, 58, 47, 47, 104, 47>>, <<104, 116, 116, 112, 58, 47, 47, 104, 47>>,
    \* "https://h/", "https:///", "file:///"
    <<104, 116, 116, 112, 115, 58, 47, 47, 104, 47>>, <<104, 116, 116, 112, 115, 58, 47, 47, 47>>, <<102, 105, 108, 101, 58, 47, 47, 47>>,
    \* "file://h/", "h:", "u@h:"
    <<102, 105, 108, 101, 58, 47, 47, 104, 47>>, <<104, 58>>, <<117, 64, 104, 58>>,
    \* "u@h:22/", "u@h", "/"
    <<117, 64, 104, 58, 50, 50, 47>>, <<117, 64, 104>>, <<47>>,
    \* "~/", " ssh://h/", "xyz://h/"
    <<126, 47>>, <<32, 115, 115, 104, 58, 47, 47, 104, 47>>, <<120, 121, 122, 58, 47, 47, 104, 47>>
   }

\* "a", "/", "~", ".git", " "
PathPieces == {<<97>>, <<47>>, <<126>>, <<46, 103, 105, 116>>, <<32>>}

RECURSIVE Flatten(_)
Flatten(v) == IF v = <<>> THEN <<>> ELSE Head(v) \o Flatten(Tail(v))

Urls ==
    {pre \o Flatten(v) : pre \in UrlPrefixes, v \in StringsUpTo(PathPieces, MaxPathPieces)}

UrlInit ==
    /\ repo_url \in Urls
    /\ project_path = <<>>
    /\ data = DB_empty
    /\ results = <<>>
    /\ matcher = <<>>
    /\ target = <<>>
    /\ score_out = <<>>
    /\ add_result = "none"
    /\ NoSession
    /\ NoFind
    /\ NoTerm
    /\ NoWalk

ToPath ==
    /\ project_path = <<>>
    /\ project_path' = <<to_path(repo_url)>>
    /\ UNCHANGED <<data, add_result, matcher, target, score_out, results, repo_url,
                   prompt_vars, find_vars, term_vars, walk_vars>>

UrlNext == ToPath

SpecUrl == UrlInit /\ [][UrlNext]_vars

\* C28: to_path(url) returns [host, path segments...]: the scheme, the user@
\* part, the :port part, a leading '~' of a segment and a trailing ".git" of
\* the last segment are removed and empty segments dropped, for the scheme
\* URLs (ssh, git, rsync, http, https) and for scp-style user@host:path; it
\* fails for an empty URL, a file URL, a URL without ':', a scheme URL without
\* "//" or without a '/' after the host, and when no path segment remains.
C28_ToPath ==
    project_path # <<>> =>
        LET u      == trim(repo_url)
            colon  == find_char(u, 58)
            before == SubSeq(u, 1, colon - 1)
            rest   == SubSeq(u, colon + 1, Len(u))
            is_scheme == colon > 0 /\ before \in {<<115, 115, 104>>, <<103, 105, 116>>, <<114, 115, 121, 110, 99>>,
                                                  <<104, 116, 116, 112>>, <<104, 116, 116, 112, 115>>}
            slashes == Len(rest) >= 2 /\ rest[1] = 47 /\ rest[2] = 47
            after  == SubSeq(rest, 3, Len(rest))
            slash  == find_char(after, 47)
            user_host == IF is_scheme THEN SubSeq(after, 1, slash - 1) ELSE before
            at     == find_char(user_host, 64)
            host_port == SubSeq(user_host, at + 1, Len(user_host))
            port   == find_char(host_port, 58)
            host   == IF is_scheme /\ port > 0 THEN SubSeq(host_port, 1, port - 1)
                      ELSE host_port
            segs   == split(IF is_scheme THEN SubSeq(after, slash + 1, Len(after))
                            ELSE rest, {47})
            clean(i) ==
                LET t == trim(segs[i])
                    a == IF t # <<>> /\ t[1] = 126 THEN Tail(t) ELSE t
                IN  IF i = Len(segs) /\ Len(a) >= 4
                       /\ SubSeq(a, Len(a) - 3, Len(a)) = <<46, 103, 105, 116>>
                    THEN SubSeq(a, 1, Len(a) - 4) ELSE a
            kept   == SelectSeq([i \in 1..Len(segs) |-> clean(i)], LAMBDA x : x # <<>>)
            fails  == \/ u = <<>>
                      \/ colon = 0
                      \/ before = <<102, 105, 108, 101>>
                      \/ is_scheme /\ (~slashes \/ slash = 0)
                      \/ kept = <<>>
        IN  IF fails THEN project_path[1].err # "none"
            ELSE project_path[1] = [err |-> "none", path |-> <<host>> \o kept]

\* "ssh://u@h:22//~a.git" has been converted to ["h", "a"]
C28_Witness ==
    /\ repo_url = <<115, 115, 104, 58, 47, 47, 117, 64, 104, 58, 50, 50, 47, 47, 126, 97, 46, 103, 105, 116>>
    /\ project_path = <<[err |-> "none", path |-> <<<<104>>, <<97>>>>]>>

\* ---------------------------------------------------------------------------
\* Where DB::add puts a new record
\* ---------------------------------------------------------------------------

\* the buffer d with the new record r placed as claimed: before the first
\* line greater than r and followed by one newline, or at the end, preceded
\* by a newline only when d is non-empty and does not end with one
claimed_insert(d, r) ==
    LET lines == split(d, {NL})
        k == First({i \in 1..Len(lines) : str_lt(r, lines[i])})
        offset == SumLen(lines, k - 1)
    IN  IF k > 0
        THEN SubSeq(d, 1, offset) \o r \o <<NL>> \o SubSeq(d, offset + 1, Len(d))
        ELSE IF d # <<>> /\ d[Len(d)] # NL THEN d \o <<NL>> \o r
        ELSE d \o r

\* C29: add places a new record r, followed by exactly one newline,
\* immediately before the first existing line greater than r; if there is
\* none, r is appended, preceded by a newline only when the buffer is
\* non-empty and does not already end with a newline, so that no empty line
\* is created.
C29_InsertPlacement ==
    [][\A entry \in AddEntries :
          (/\ Add(entry)
           /\ add_result' = "ok"
           /\ \A i \in 1..NumLines(data) : split(data, {NL})[i] # trim(entry))
          => data' = claimed_insert(data, trim(entry))]_vars

\* ---------------------------------------------------------------------------
\* The boundary predicate of the tokenizer
\* ---------------------------------------------------------------------------

\* C30: the Matcher splits the query and the candidate into tokens at the
\* characters for which text::is_punctuation holds (whitespace, '!'-'/',
\* ':'-'@', '['-'`', '{'-'~') and at no others, and discards empty tokens.
C30_TokensSplitAtPunctuation ==
    score_out # <<>> =>
        /\ Keywords_new(matcher) = tokens(matcher, Punctuation)
        /\ Keywords_new(target) = tokens(target, Punctuation)
        /\ \A i \in 1..Len(Keywords_new(target)) : Keywords_new(target)[i] # <<>>
        /\ score_out[1] = score_loop(tokens(matcher, Punctuation),
                                     tokens(target, Punctuation), 1, 0)

\* ---------------------------------------------------------------------------
\* Word movement at the ends of the text
\* ---------------------------------------------------------------------------

\* C31: a word-left chord with the cursor at 0, or a word-right chord with
\* the cursor at the end of the text, leaves the PromptUI unchanged and
\* emits no event.
C31_WordMoveSilentAtBoundary ==
    [][Edited =>
          /\ (event' \in WordLeftChords /\ ui.text_cursor = 0)
                => (ui' = ui /\ ui_event' = None)
          /\ (event' \in WordRightChords /\ ui.text_cursor = Len(ui.text_input))
                => (ui' = ui /\ ui_event' = None)]_vars

\* ---------------------------------------------------------------------------
\* A frame on the terminal (tui.rs: finish_line, reset, prompt, render, done)
\*
\* The terminal is the sequence of its lines from the line on which the
\* session started, all blank at first, and the row of the cursor among
\* them.  A line is what the program wrote between two "\r\n"; a line wider
\* than the terminal is kept as one line.  Records are ASCII, so that the
\* byte slice &item[..item_len] is a prefix of characters.
\* ---------------------------------------------------------------------------
MaxFrameRows == 2       \* number of items handed to a render
MaxFrameKeys == 1       \* number of key events between the renders

PROMPT_STRING == <<62, 62, 62, 32>>             \* ">>> "
PREFIX_SELECTED == <<32, 32, 42, 32>>           \* "  * "
PREFIX_PLAIN == <<32, 32, 32, 32>>              \* "    "

U16 == 65536

\* mutation of len_utf8: one column per character
len_one(c) == 1

\* char::len_utf8
len_utf8(c) ==
    IF c < 128 THEN 1 ELSE IF c < 2048 THEN 2 ELSE IF c < 65536 THEN 3 ELSE 4

\* text_input[..text_cursor].iter().map(|c| c.len_utf8() as u16).sum(), the
\* sum of the characters lo..hi of the text in 16 bits
RECURSIVE sum_len_utf8(_, _, _)
sum_len_utf8(text, lo, hi) ==
    IF lo > hi THEN 0
    ELSE IF lo = hi THEN len_utf8(text[lo])
    ELSE LET mid == (lo + hi) \div 2
         IN  (sum_len_utf8(text, lo, mid) + sum_len_utf8(text, mid + 1, hi)) % U16

cursor_pos_bytes(self) == sum_len_utf8(self.text_input, 1, self.text_cursor)

\* the line of the cursor is `s`; the lines the terminal did not have yet
\* are blank
set_line(scr, s) ==
    [scr EXCEPT !.lines =
        [k \in 1..(IF Len(scr.lines) > scr.row THEN Len(scr.lines) ELSE scr.row + 1)
            |-> IF k = scr.row + 1 THEN s
                ELSE IF k <= Len(scr.lines) THEN scr.lines[k] ELSE <<>>]]

line_at(scr, k) == IF k + 1 <= Len(scr.lines) THEN scr.lines[k + 1] ELSE <<>>

\* "\r" and clear::CurrentLine
clear_line(scr) == set_line(scr, <<>>)

\* self.text(s) on a line whose cursor is at the end of what it holds
text(scr, s) == set_line(scr, line_at(scr, scr.row) \o s)

\* the "\r\n" of finish_line
newline(scr) == [scr EXCEPT !.row = scr.row + 1]

\* the loop of reset: n times "\r", clear::CurrentLine, cursor::Down(1)
RECURSIVE clear_down(_, _)
clear_down(scr, n) ==
    IF n = 0 THEN scr
    ELSE clear_down([clear_line(scr) EXCEPT !.row = scr.row + 1], n - 1)

\* mutation of reset: only the line of the cursor is cleared
reset_first_line(self, scr) == clear_line(scr)

\* PromptUI::reset: the screen after it; lines_printed is 0 afterwards
reset(self, scr) ==
    LET first == clear_line(scr)
    IN  IF self.lines_printed > 0
        THEN [clear_down(first, self.lines_printed) EXCEPT !.row = scr.row]
        ELSE first

\* the lines that reset clears
reset_cleared(self, scr) ==
    {scr.row} \cup {scr.row + k : k \in 0..(self.lines_printed - 1)}

\* PromptUI::prompt: the marker, the query, finish_line
prompt(self, scr) == newline(text(scr, PROMPT_STRING \o self.text_input))

\* items.enumerate().take(height as usize - 2): the number of rows on a
\* terminal of that height; for a height below 2 the subtraction wraps in a
\* build without overflow checks and every item is taken
rows_taken(items, height) ==
    IF height < 2 THEN Len(items)
    ELSE IF Len(items) <= height - 2 THEN Len(items) ELSE height - 2

\* mutation of rows_taken: the terminal height is ignored
rows_taken_all(items, height) == Len(items)

\* one row of render: the prefix and &item[..item_len]
row_text(self, item, index, width) ==
    LET prefix   == IF index = self.selected_item THEN PREFIX_SELECTED ELSE PREFIX_PLAIN
        item_len == LET w == (IF width > 10 THEN width ELSE 10) - Len(prefix)
                    IN  IF Len(item) <= w THEN Len(item) ELSE w
    IN  prefix \o SubSeq(item, 1, item_len)

\* the rows of render from row `index` (0-based) on
RECURSIVE write_rows(_, _, _, _, _, _)
write_rows(self, scr, items, index, n, width) ==
    IF index >= n THEN scr
    ELSE write_rows(self, newline(text(scr, row_text(self, items[index + 1], index, width))),
                    items, index + 1, n, width)

\* PromptUI::render(items) on a terminal of the given size, when every write
\* succeeds.  `checked` is whether the build has overflow checks: with them
\* `height as usize - 2` panics for a height below 2, after reset and prompt.
render_on(self, scr, items, width, height, checked) ==
    LET cleared  == reset(self, scr)
        prompted == prompt(self, cleared)
        panics   == checked /\ height < 2
        n        == IF panics THEN 0 ELSE rows_taken(items, height)
        drawn    == write_rows(self, prompted, items, 0, n, width)
        printed_ == (1 + n) % U16
        right    == (Len(PROMPT_STRING) + cursor_pos_bytes(self)) % U16
    IN  [ui     |-> [self EXCEPT !.max_items = n, !.lines_printed = printed_],
         screen |-> IF panics THEN drawn ELSE [drawn EXCEPT !.row = drawn.row - printed_],
         frame  |-> [width      |-> width,
                     height     |-> height,
                     cleared    |-> reset_cleared(self, scr),
                     first_line |-> scr.row,
                     prompt     |-> line_at(prompted, scr.row),
                     rows       |-> [i \in 1..n |-> row_text(self, items[i], i - 1, width)],
                     up         |-> IF panics THEN 0 ELSE printed_,
                     right      |-> IF panics THEN 0 ELSE right,
                     panicked   |-> panics]]

\* terminal sizes (width, height): the fallback, a width of 10 with a height
\* that cuts the rows, a width below 10, a height of 1, and the size 0 x 0
\* that a terminal without a window size reports
TermSizes == {<<80, 80>>, <<10, 3>>, <<5, 4>>, <<80, 1>>, <<0, 0>>}

\* the items of a render: the first records of "abcdefghijkl", "a", "ab", ...
FrameRecord(i) ==
    IF i = 1 THEN <<97, 98, 99, 100, 101, 102, 103, 104, 105, 106, 107, 108>>
    ELSE <<97>> \o Repeat(98, i - 2)

FrameItems == {[i \in 1..n |-> FrameRecord(i)] : n \in 0..MaxFrameRows}

\* whether the build has overflow checks matters for a height below 2 only
Builds(size) == IF size[2] < 2 THEN BOOLEAN ELSE {FALSE}

\* seeds: none, "a", and a character of two bytes with one of three bytes
FrameSeeds == {<<>>, <<97>>, <<233, 8364>>}

\* Down, Up, Left, a character of three bytes
FrameEvents == {Key("Down"), Key("Up"), Key("Left"), Char(8364)}

FrameStart(seeds) ==
    /\ \E seed \in seeds : ui = PromptUI_new(seed)
    /\ frame = NoFrame
    /\ screen = BlankScreen
    /\ event = NoEvent
    /\ ui_event = None
    /\ events_read = 0
    /\ data = DB_empty
    /\ add_result = "none"
    /\ matcher = <<>>
    /\ target = <<>>
    /\ score_out = <<>>
    /\ results = <<>>
    /\ NoFind
    /\ NoUrl
    /\ NoWalk

FrameInit == FrameStart(FrameSeeds)

\* a key between two renders
FrameEvent(ev) ==
    /\ ~frame.panicked
    /\ events_read < MaxFrameKeys
    /\ \E r \in {handle_event(ui, ev)} :
           /\ ui' = r.ui
           /\ ui_event' = r.ret
    /\ event' = ev
    /\ events_read' = events_read + 1
    /\ UNCHANGED <<data, add_result, matcher, target, score_out, results, find_vars,
                   url_vars, term_vars, walk_vars>>

\* ui.render(items) while termion::terminal_size() gives `size`
RenderOn(items, size, checked) ==
    /\ ~frame.panicked
    /\ \E r \in {render_on(ui, screen, items, size[1], size[2], checked)} :
           /\ ui' = r.ui
           /\ screen' = r.screen
           /\ frame' = r.frame
    /\ UNCHANGED <<data, add_result, matcher, target, score_out, results,
                   event, ui_event, events_read, find_vars, url_vars, walk_vars>>

FrameNext ==
    \/ \E ev \in FrameEvents : FrameEvent(ev)
    \/ \E items \in FrameItems, size \in TermSizes :
          \E checked \in Builds(size) : RenderOn(items, size, checked)

SpecFrame == FrameInit /\ [][FrameNext]_vars

\* the rows of the frame that carry the selection marker
MarkedRows(f) == {i \in 1..Len(f.rows) : SubSeq(f.rows[i], 1, 4) = PREFIX_SELECTED}

\* C32: a render on a terminal of height h and width w writes
\* min(number of items, h - 2) rows, none when h <= 2; each row, with its
\* 4-character prefix, is no wider than w; exactly the row whose index is the
\* selected row carries the marker.
C32_RowsFitTerminal ==
    [][\A items \in FrameItems, size \in TermSizes, checked \in BOOLEAN :
          RenderOn(items, size, checked) =>
              LET w == size[1]
                  h == size[2]
                  n == IF h <= 2 THEN 0
                       ELSE IF Len(items) <= h - 2 THEN Len(items) ELSE h - 2
              IN  /\ ~frame'.panicked
                  /\ Len(frame'.rows) = n
                  /\ \A i \in 1..n : Len(frame'.rows[i]) <= w
                  /\ MarkedRows(frame') = {i \in 1..n : i - 1 = ui.selected_item}]_vars

\* the lines of the terminal that are not blank
NonBlank(scr) == {k \in 0..Len(scr.lines) : line_at(scr, k) # <<>>}

\* the lines a frame occupies: its prompt line and one line per row
FrameLines(f) == IF f = NoFrame THEN {} ELSE f.first_line..(f.first_line + Len(f.rows))

\* a step of SpecFrame that is a render: no key has been read
FrameRendered == events_read' = events_read

DoneSeeds == FrameSeeds \cup {Repeat(128512, QUERY_MAX_CHAR_LEN + 1)}

\* Left, Home, a character of three bytes
DoneEvents == {Key("Left"), Key("Home"), Char(8364)}

DoneSizes == {<<80, 80>>, <<80, 3>>}

DoneInit == FrameStart(DoneSeeds)

DoneNext ==
    \/ \E ev \in DoneEvents : FrameEvent(ev)
    \/ \E items \in FrameItems, size \in DoneSizes : RenderOn(items, size, FALSE)

SpecDone == DoneInit /\ [][DoneNext]_vars

\* the number of bytes of the UTF-8 encoding of a code point
EncodedBytes(c) == IF c <= 127 THEN 1 ELSE IF c <= 2047 THEN 2 ELSE IF c <= 65535 THEN 3 ELSE 4

\* the number of bytes of the characters lo..hi of a text
RECURSIVE EncodedLength(_, _, _)
EncodedLength(s, lo, hi) ==
    IF lo > hi THEN 0
    ELSE IF lo = hi THEN EncodedBytes(s[lo])
    ELSE LET mid == (lo + hi) \div 2
         IN  EncodedLength(s, lo, mid) + EncodedLength(s, mid + 1, hi)

\* C34: at the end of a render the cursor is moved up by the number of lines
\* written in that frame and right by 4 plus the sum of the UTF-8 encoded
\* lengths of the characters before the text cursor; with a query of at most
\* QUERY_MAX_CHAR_LEN characters both amounts are below 2^16.
C34_CursorReturnsToPrompt ==
    [][FrameRendered =>
          LET bytes == EncodedLength(ui.text_input, 1, ui.text_cursor)
          IN  /\ Len(ui.text_input) <= QUERY_MAX_CHAR_LEN
              /\ frame'.up = 1 + Len(frame'.rows)
              /\ frame'.right = 4 + bytes
              /\ 4 + bytes < U16
              /\ 1 + Len(frame'.rows) < U16
              /\ screen'.row = frame'.first_line]_vars

\* a frame for QUERY_MAX_CHAR_LEN characters of four bytes each, the cursor
\* behind the last one
C34_Witness ==
    /\ Len(ui.text_input) = QUERY_MAX_CHAR_LEN
    /\ ui.text_cursor = QUERY_MAX_CHAR_LEN
    /\ frame.right = 4 + 4 * QUERY_MAX_CHAR_LEN
    /\ frame.up = 1 + Len(frame.rows)
    /\ frame.up > 1

\* ---------------------------------------------------------------------------
\* handle_find on a terminal: every render asks the terminal for its size
\* (app.rs handle_find, tui.rs render)
\* ---------------------------------------------------------------------------
MaxTermScript == 1      \* length of the arbitrary inputs of the terminal loop

\* QUERY_MAX_CHAR_LEN spaces and "a"
LongSeed == Repeat(32, QUERY_MAX_CHAR_LEN) \o <<97>>

\* args.query.join(" "): "a", "ab", and the seed beyond the capacity
TermSeeds == {<<97>>, <<97, 98>>, LongSeed}

\* Enter, Ctrl-C, Down, Left, 'b'
TermEvents == {Char(10), Ctrl(99), Key("Down"), Key("Left"), Char(98)}

\* twice Down, Left, Enter: the terminal may be resized in between
ResizeScript == <<Key("Down"), Key("Down"), Key("Left"), Char(10)>>

TermScripts == StringsUpTo(TermEvents, MaxTermScript) \cup {ResizeScript}

\* the sizes termion::terminal_size() gives: the fallback, a height that
\* leaves one row, and 0 x 0
LoopSizes == {<<80, 80>>, <<80, 3>>, <<0, 0>>}

TermInit ==
    /\ pc = "find"
    /\ data = FiveRecordIndex
    /\ input \in TermScripts
    /\ matcher = <<>>
    /\ results = <<>>
    /\ raw_mode = FALSE
    /\ selection = <<>>
    /\ printed = <<>>
    /\ err = "none"
    /\ quit_failed = FALSE
    /\ rendered = 0
    /\ add_result = "none"
    /\ target = <<>>
    /\ score_out = <<>>
    /\ NoSession
    /\ NoUrl
    /\ NoTerm
    /\ NoWalk

\* handle_find up to the loop, the first frame on a terminal of that size
FindOn(seed, size, checked) ==
    /\ pc = "find"
    /\ \E res \in {DBView_find_matches(DB_view(data), seed, results)},
          new \in {PromptUI_new(seed)} :
       \E r \in {render_on(new, screen, top_items(res), size[1], size[2], checked)} :
           /\ matcher' = seed
           /\ results' = res
           /\ IF Len(res) = 1
              THEN /\ printed' = Append(printed, res[1].item)
                   /\ pc' = "done"
                   /\ UNCHANGED <<ui, raw_mode, err, rendered, term_vars>>
              ELSE \/ \* PromptUI::new fails to enter raw mode
                      /\ pc' = "failed"
                      /\ err' = "new"
                      /\ UNCHANGED <<ui, raw_mode, printed, rendered, term_vars>>
                   \/ \* the first render fails
                      /\ ui' = new
                      /\ raw_mode' = TRUE
                      /\ pc' = "drop"
                      /\ err' = "render"
                      /\ UNCHANGED <<printed, rendered, term_vars>>
                   \/ /\ ui' = r.ui
                      /\ screen' = r.screen
                      /\ frame' = r.frame
                      /\ raw_mode' = TRUE
                      /\ pc' = IF r.frame.panicked THEN "drop" ELSE "events"
                      /\ err' = IF r.frame.panicked THEN "panic" ELSE err
                      /\ rendered' = IF r.frame.panicked THEN rendered ELSE rendered + 1
                      /\ UNCHANGED printed
    /\ UNCHANGED <<data, add_result, target, score_out, url_vars, walk_vars, event,
                   ui_event, events_read, input, selection, quit_failed>>

\* one iteration of `for event in stdin.events()` on a terminal of that size
ReadEventOn(size, checked) ==
    /\ pc = "events"
    /\ events_read < Len(input)
    /\ \E ev \in {input[events_read + 1]} :
       \E h \in {handle_event(ui, ev)} :
       \E res \in {IF h.ret = "PromptUpdated"
                   THEN DBView_find_matches(DB_view(data), h.ui.text_input, results)
                   ELSE results} :
       \E r \in {render_on(h.ui, screen, top_items(res), size[1], size[2], checked)} :
       LET sel  == IF h.ret = "SelectionDone" THEN select(h.ui, results) ELSE <<>>
           stop == h.ret = "Exit" \/ sel # <<>>
       IN  /\ event' = ev
           /\ ui_event' = h.ret
           /\ events_read' = events_read + 1
           /\ matcher' = IF h.ret = "PromptUpdated" THEN h.ui.text_input ELSE matcher
           /\ results' = res
           /\ selection' = IF sel # <<>> THEN sel ELSE selection
           /\ IF stop
              THEN /\ ui' = h.ui
                   /\ pc' = "drop"
                   /\ UNCHANGED <<err, rendered, term_vars>>
              ELSE IF h.ret = None
              THEN /\ ui' = h.ui
                   /\ UNCHANGED <<pc, err, rendered, term_vars>>
              ELSE \/ /\ ui' = r.ui
                      /\ screen' = r.screen
                      /\ frame' = r.frame
                      /\ pc' = IF r.frame.panicked THEN "drop" ELSE pc
                      /\ err' = IF r.frame.panicked THEN "panic" ELSE err
                      /\ rendered' = IF r.frame.panicked THEN rendered ELSE rendered + 1
                   \/ \* render fails
                      /\ ui' = h.ui
                      /\ pc' = "drop"
                      /\ err' = "render"
                      /\ UNCHANGED <<rendered, term_vars>>
    /\ UNCHANGED <<data, add_result, target, score_out, url_vars, walk_vars, raw_mode,
                   input, printed, quit_failed>>

\* the PromptUI goes out of scope: Drop calls quit(), which resets the frame
\* unless it fails, and the RawTerminal restores the terminal
DropOn ==
    /\ pc = "drop"
    /\ raw_mode' = FALSE
    /\ quit_failed' \in BOOLEAN
    /\ screen' = IF quit_failed' THEN screen ELSE reset(ui, screen)
    /\ pc' = IF err = "none" THEN "print" ELSE "failed"
    /\ UNCHANGED <<data, add_result, matcher, target, score_out, url_vars, walk_vars,
                   results, prompt_vars, input, selection, printed, err, rendered, frame>>

TermNext ==
    \/ \E seed \in TermSeeds, size \in LoopSizes :
          \E checked \in Builds(size) : FindOn(seed, size, checked)
    \/ \E size \in LoopSizes : \E checked \in Builds(size) : ReadEventOn(size, checked)
    \/ ReadError
    \/ EndOfInput
    \/ DropOn
    \/ PrintSelection

SpecTerm == TermInit /\ [][TermNext]_vars

\* C35: in every state of the loop the selected row is 0 or below the
\* number of rows of the last frame, and a frame with at least one row has
\* exactly one row with the marker.
C35_SelectedRowIsRendered ==
    pc = "events" =>
        /\ ui.selected_item = 0 \/ ui.selected_item < Len(frame.rows)
        /\ Len(frame.rows) > 0 => Cardinality(MarkedRows(frame)) = 1

\* the text on the prompt line of a frame, behind the marker ">>> "
ShownText(f) == SubSeq(f.prompt, Len(PROMPT_STRING) + 1, Len(f.prompt))

\* the records on the rows of a frame, behind their prefixes
DisplayedItems(f) ==
    [i \in 1..Len(f.rows) |-> SubSeq(f.rows[i], Len(PREFIX_PLAIN) + 1, Len(f.rows[i]))]

\* C36: the rows of every frame, the first one included, are the ranking of
\* the View against the text on the prompt line of that frame, as far as
\* max_find_items and the terminal height let them be shown.
C36_RowsRankThePromptText ==
    (frame # NoFrame /\ ~frame.panicked) =>
        LET ranking == top_items(DBView_find_matches(DB_view(data), ShownText(frame), <<>>))
        IN  DisplayedItems(frame) = SubSeq(ranking, 1, rows_taken(ranking, frame.height))

\* C37: a record reported after a confirm key is the record on the row that
\* carries the marker in the last frame.
C37_ReportsTheMarkedRow ==
    selection # <<>> =>
        /\ MarkedRows(frame) = {selection[1] + 1}
        /\ DisplayedItems(frame)[selection[1] + 1] = results[selection[1] + 1].item
        /\ pc = "done" => printed = <<DisplayedItems(frame)[selection[1] + 1]>>

\* ---------------------------------------------------------------------------
\* The two queries of the Index (db.rs DB::find_matches, DBView::find_matches)
\* ---------------------------------------------------------------------------

\* the records that View.find_matches selects from the buffer d for q
ViewSelected(d, q) ==
    LET out == DBView_find_matches(DB_view(d), q, <<>>)
    IN  {out[i].item : i \in 1..Len(out)}

\* C38: for every Index and every query, the empty one included,
\* Index.find_matches yields the set of records that View.find_matches
\* selects.
C38_SameSelection ==
    [][\A q \in ViewQueries :
          FindMatches(q) => {results'[i] : i \in 1..Len(results')} = ViewSelected(data, q)]_vars

\* ---------------------------------------------------------------------------
\* The walk that finds the repositories (git_dir.rs GitDirIterator)
\*
\* A directory tree is the start directory, 0, and the entries 1..MaxNodes
\* below it: parent[i] is the directory that holds entry i and kind[i] says
\* whether i is a directory, a directory named ".git" or a file named
\* ".git".  A path is the entry it leads to.  read_dir lists the entries of
\* a directory in ascending order; as the entries of a directory are numbered
\* in every possible way, this is every listing order.  No read fails.
\* ---------------------------------------------------------------------------
MaxNodes == 4       \* number of entries below the start directory

Nodes == 1..MaxNodes

\* the entries of directory d
Entries(t, d) == {i \in Nodes : t.parent[i] = d}

\* the trees: an entry lies in the start directory or in a directory other
\* than ".git", and a directory has at most one entry named ".git"
Trees ==
    {t \in [parent : [Nodes -> 0..(MaxNodes - 1)],
            kind   : [Nodes -> {"dir", "git", "gitfile"}]] :
        /\ \A i \in Nodes : /\ t.parent[i] < i
                            /\ t.parent[i] = 0 \/ t.kind[t.parent[i]] = "dir"
        /\ \A i, j \in Nodes :
              (i # j /\ t.parent[i] = t.parent[j]) => (t.kind[i] = "dir" \/ t.kind[j] = "dir")}

\* std::fs::read_dir(d): the entries of d in listing order
read_dir(t, d) ==
    LET S == Entries(t, d)
    IN  [k \in 1..Cardinality(S) |-> CHOOSE i \in S : Cardinality({j \in S : j < i}) = k - 1]

\* Path::is_dir
is_dir(t, i) == t.kind[i] \in {"dir", "git"}

\* path.file_name() == Some(".git")
is_dot_git(t, i) == t.kind[i] \in {"git", "gitfile"}

\* mutation of truncate: the directories pushed before ".git" stay on the stack
truncate_none(v, n) == v

\* Vec::truncate
truncate(v, n) == SubSeq(v, 1, n)

\* the loop 'entry of next(): st is [stack, pushed_items, result], result
\* being <<>> for None and <<d>> for Some(Ok(d))
RECURSIVE scan_entries(_, _, _, _, _)
scan_entries(t, next_dir, entries, k, st) ==
    IF k > Len(entries) THEN st
    ELSE LET path == entries[k]
         IN  IF is_dir(t, path) /\ is_dot_git(t, path)
             THEN [st EXCEPT !.result = <<next_dir>>]
             ELSE IF is_dir(t, path)
             THEN scan_entries(t, next_dir, entries, k + 1,
                               [st EXCEPT !.pushed_items = @ + 1,
                                          !.stack = Append(@, path)])
             ELSE scan_entries(t, next_dir, entries, k + 1, st)

\* the element of a set of one element
Only(S) == CHOOSE v \in S : TRUE

\* GitDirIterator::next: the stack afterwards and the item returned, <<>> for
\* None and <<d>> for Some(Ok(d))
RECURSIVE GitDirIterator_next(_, _)
GitDirIterator_next(t, stack) ==
    IF stack = <<>> THEN [search_stack |-> stack, item |-> <<>>]
    ELSE LET next_dir == stack[Len(stack)]
             scanned  == {scan_entries(t, next_dir, read_dir(t, next_dir), 1,
                                       [stack        |-> SubSeq(stack, 1, Len(stack) - 1),
                                        pushed_items |-> 0,
                                        result       |-> <<>>])}
         IN  Only({IF st.result # <<>>
                   THEN [search_stack |-> IF st.pushed_items > 0
                                          THEN truncate(st.stack,
                                                        Len(st.stack) - st.pushed_items)
                                          ELSE st.stack,
                         item |-> st.result]
                   ELSE GitDirIterator_next(t, st.stack) : st \in scanned})

\* GitDirIterator::new(start_dir) on some tree
WalkInit ==
    /\ tree \in Trees
    /\ search_stack = <<0>>
    /\ yielded = <<>>
    /\ exhausted = FALSE
    /\ data = DB_empty
    /\ add_result = "none"
    /\ matcher = <<>>
    /\ target = <<>>
    /\ score_out = <<>>
    /\ results = <<>>
    /\ NoSession
    /\ NoFind
    /\ NoUrl
    /\ NoTerm

\* one call of next() by the consumer of the iterator, which stops at None
NextDir ==
    /\ ~exhausted
    /\ \E r \in {GitDirIterator_next(tree, search_stack)} :
          /\ search_stack' = r.search_stack
          /\ yielded' = IF r.item = <<>> THEN yielded ELSE Append(yielded, r.item[1])
          /\ exhausted' = (r.item = <<>>)
    /\ UNCHANGED <<tree, data, add_result, matcher, target, score_out, results,
                   prompt_vars, find_vars, url_vars, term_vars>>

WalkNext == NextDir

\* from_entries consumes the iterator until it returns None
SpecWalk == WalkInit /\ [][WalkNext]_vars /\ WF_vars(WalkNext)

\* the directories of the tree, the start directory included
Dirs(t) == {0} \cup {i \in Nodes : t.kind[i] = "dir"}

\* d holds a directory named ".git"
HoldsGit(t, d) == \E i \in Entries(t, d) : t.kind[i] = "git"

\* the directories above d up to the start directory
RECURSIVE Ancestors(_, _)
Ancestors(t, d) == IF d = 0 THEN {} ELSE {t.parent[d]} \cup Ancestors(t, t.parent[d])

\* the repositories that have no repository above them
TopRepos(t) ==
    {d \in Dirs(t) : HoldsGit(t, d) /\ \A a \in Ancestors(t, d) : ~HoldsGit(t, a)}

Yielded == {yielded[i] : i \in 1..Len(yielded)}

\* C39: on every finite tree, in every listing order, the iterator comes to
\* its end; what it has yielded by then is each directory that holds a ".git"
\* directory and has no such directory above it, once each; at no time has
\* it yielded a path twice, or a directory inside a yielded one, or is a
\* directory at or below a yielded one waiting on its stack.
C39_YieldsTopRepositoriesOnce ==
    /\ <>exhausted
    /\ [](exhausted => (Yielded = TopRepos(tree) /\ search_stack = <<>>))
    /\ [](/\ Cardinality(Yielded) = Len(yielded)
          /\ Yielded \subseteq TopRepos(tree)
          /\ \A d \in Yielded : Ancestors(tree, d) \cap Yielded = {}
          /\ \A k \in 1..Len(search_stack) :
                ({search_stack[k]} \cup Ancestors(tree, search_stack[k])) \cap Yielded = {})

\* the walk has ended on a tree in which a yielded repository lists a
\* directory that is itself a repository before its own ".git"
C39_Witness ==
    /\ exhausted
    /\ \E d \in Yielded : \E c, g \in Entries(tree, d) :
          /\ tree.kind[c] = "dir"
          /\ tree.kind[g] = "git"
          /\ c < g
          /\ HoldsGit(tree, c)

====
